---------------------------- MODULE Spec2Model ----------------------------
(***************************************************************************)
(* Model of the annotation pipeline of the AuditRAM runner:                *)
(*   src/app.py                  main, interactive_prompt, detect_type,    *)
(*                               gather_files, process_single_file,        *)
(*                               run_pdf/docx/excel/image                  *)
(*   src/utils/pdf_handler.py    find_matches_in_pdf, draw_fallback,       *)
(*                               draw_with_drawrect, images_to_pdf,        *)
(*                               annotate_pdf_and_build_combined           *)
(*   src/utils/docx_handler.py   convert_docx_to_pdf, process_word_file    *)
(*   src/utils/excel_handler.py  find_matches_in_sheet, process_excel_file,*)
(*                               render_sheet_to_image,                    *)
(*                               draw_matches_on_image                     *)
(*   src/utils/image_handler.py  extract_boxes, draw_boxes, process_image  *)
(*                                                                         *)
(* Ten specifications share the module:                                    *)
(*   Spec        one run of the runner on one file (orchestration and the  *)
(*               four format pipelines, with the failures the environment  *)
(*               can cause at each step);                                  *)
(*   SpecMatch   the three match locators as pure functions, applied to a  *)
(*               query and to a variant of it;                             *)
(*   SpecMap     draw_fallback's native-to-pixel mapping, applied to one   *)
(*               native rect and two rasters;                              *)
(*   SpecStroke  the outline loop of the three box renderers;              *)
(*   SpecAgg     images_to_pdf applied to a list of raster paths;          *)
(*   SpecGrid    render_sheet_to_image's layout of the cells of a sheet;   *)
(*   SpecType    detect_type applied to a path and to a case variant;      *)
(*   SpecGather  gather_files applied to a path of a directory tree;       *)
(*   SpecMain    app.main's loop over the gathered files;                  *)
(*   SpecPrefer  annotate_pdf_and_build_combined as a function, called     *)
(*               with and without prefer_fallback.                         *)
(*                                                                         *)
(* Text is a sequence of characters.  Numbers are exact: Python's float    *)
(* products are modelled as exact rationals (IEEE-754 rounding is not      *)
(* modelled).                                                              *)
(***************************************************************************)
EXTENDS Integers, Sequences, FiniteSets, TLC

VARIABLES
    \* ---- Spec: one run of the runner on one file
    entry,            \* "main" (app.main) or "single" (process_single_file called directly)
    arg_query,        \* the query given on the command line
    kind,             \* what the file is: "pdf", "docx", "excel", "image", or "None"
    doc,              \* the document: a sequence of units (pages, sheets, one image)
    force_render,     \* the --force-render option
    app_pc,           \* position in app.py
    query,            \* the query handed to the pipeline
    pc,               \* position in the format pipeline
    pnum,             \* index of the unit the pipeline is at (0-based)
    matches,          \* pdf: matches of all pages; excel: match_cells of the sheet; image: boxes
    chosen_images,    \* pdf: dict unit index -> fallback raster path
    ordered,          \* pdf: the raster paths sorted by unit index
    generated_images, \* excel: list of raster paths
    files,            \* raster files written to the output directory
    combined_file,    \* content of annotated_combined.pdf (a list of raster paths), if created
    combined_made,    \* whether annotated_combined.pdf was created in this run
    ret,              \* what the pipeline function returned
    result,           \* what run_pdf / run_excel / run_image returned
    failed,           \* units whose rasterization or drawing raised
    log,              \* the operations performed, in order
    exists,           \* whether the input path names an existing file
    page_dims,        \* pdf: unit index -> (page.width, page.height) as read at line 137
    raster,           \* content of each raster file written: who drew it, how many boxes
    handles,          \* document handles that are open
    fname,            \* the name of the input file
    runner,           \* the runner process_single_file dispatched to, "None" before
    out_subdir,       \* process_single_file's out_subdir (path components), <<>> before
    dirs,             \* the directories created under the output directory
    tmpdir,           \* docx: whether the temporary conversion directory exists
    temp_pdf,         \* docx: whether the converted pdf exists in it
    \* ---- SpecMatch: a locator applied to a query and to a variant of it
    m_loc, m_content, m_query, m_pc, m_base, m_varkind, m_varq, m_varres,
    \* ---- SpecMap: draw_fallback applied to one native rect and two rasters
    g_pc, g_page_pts, g_rect, g_img1, g_out1, g_img2, g_out2,
    \* ---- SpecStroke: a box renderer draws the outlines of one pixel rect
    k_fn, k_rect, k_width, k_w, k_outlines, k_pc,
    \* ---- SpecAgg: images_to_pdf called on a list of raster paths
    a_list, a_unreadable, a_pc, a_out, a_file, a_made,
    \* ---- SpecGrid: render_sheet_to_image lays out the cells of one sheet
    q_col_px, q_row_px, q_match, q_pc, q_img, q_r, q_c, q_x, q_y, q_boxes, q_drawn,
    \* ---- SpecType: detect_type applied to a path and to a case variant of it
    t_name, t_pc, t_res, t_variant, t_varres,
    \* ---- SpecGather: gather_files applied to a path of a directory tree
    f_isdir, f_name, f_parent, f_path, f_pc, f_flat, f_deep,
    \* ---- SpecMain: app.main's loop over the gathered files
    n_files, n_i, n_overall, n_pc, n_status,
    \* ---- SpecPrefer: annotate_pdf_and_build_combined called with and without prefer_fallback
    h_doc, h_query, h_force, h_env, h_pc, h_run1, h_run2

runVars == <<entry, arg_query, kind, doc, force_render, app_pc, query, pc, pnum,
             matches, chosen_images, ordered, generated_images, files, combined_file,
             combined_made, ret, result, failed, log, exists, page_dims, raster,
             handles, fname, runner, out_subdir, dirs, tmpdir, temp_pdf>>
callVars == <<fname, runner, out_subdir, dirs, tmpdir, temp_pdf>>
matchVars == <<m_loc, m_content, m_query, m_pc, m_base, m_varkind, m_varq, m_varres>>
mapVars == <<g_pc, g_page_pts, g_rect, g_img1, g_out1, g_img2, g_out2>>
strokeVars == <<k_fn, k_rect, k_width, k_w, k_outlines, k_pc>>
aggVars == <<a_list, a_unreadable, a_pc, a_out, a_file, a_made>>
gridVars == <<q_col_px, q_row_px, q_match, q_pc, q_img, q_r, q_c, q_x, q_y, q_boxes,
              q_drawn>>
typeVars == <<t_name, t_pc, t_res, t_variant, t_varres>>
gatherVars == <<f_isdir, f_name, f_parent, f_path, f_pc, f_flat, f_deep>>
mainVars == <<n_files, n_i, n_overall, n_pc, n_status>>
preferVars == <<h_doc, h_query, h_force, h_env, h_pc, h_run1, h_run2>>
vars == <<runVars, matchVars, mapVars, strokeVars, aggVars, gridVars, typeVars,
          gatherVars, mainVars, preferVars>>

\* the variables an action of each specification leaves alone
notRun == <<matchVars, mapVars, strokeVars, aggVars, gridVars, typeVars, gatherVars,
            mainVars, preferVars>>
notMatch == <<runVars, mapVars, strokeVars, aggVars, gridVars, typeVars, gatherVars,
              mainVars, preferVars>>
notMap == <<runVars, matchVars, strokeVars, aggVars, gridVars, typeVars, gatherVars,
            mainVars, preferVars>>
notStroke == <<runVars, matchVars, mapVars, aggVars, gridVars, typeVars, gatherVars,
               mainVars, preferVars>>
notAgg == <<runVars, matchVars, mapVars, strokeVars, gridVars, typeVars, gatherVars,
            mainVars, preferVars>>
notGrid == <<runVars, matchVars, mapVars, strokeVars, aggVars, typeVars, gatherVars,
             mainVars, preferVars>>
notType == <<runVars, matchVars, mapVars, strokeVars, aggVars, gridVars, gatherVars,
             mainVars, preferVars>>
notGather == <<runVars, matchVars, mapVars, strokeVars, aggVars, gridVars, typeVars,
               mainVars, preferVars>>
notMain == <<runVars, matchVars, mapVars, strokeVars, aggVars, gridVars, typeVars,
             gatherVars, preferVars>>
notPrefer == <<runVars, matchVars, mapVars, strokeVars, aggVars, gridVars, typeVars,
               gatherVars, mainVars>>

-----------------------------------------------------------------------------
(* Bounds of the model *)

MaxUnits == 3       \* units (pages, sheets) of a document
MaxQueryLen == 2    \* characters of a query, in SpecMatch
MaxWords == 2       \* words of a page or image, rows and columns of a sheet, in SpecMatch
MaxCoord == 2       \* native rect coordinates range over -1 .. MaxCoord
MaxNative == 2      \* native page width and height range over 1 .. MaxNative
MaxRaster == 4      \* raster width and height range over 1 .. MaxRaster
MaxPixel == 2       \* pixel rect coordinates range over 0 .. MaxPixel, in SpecStroke
MaxStroke == 3      \* stroke widths range over -1 .. MaxStroke
MaxGrid == 2        \* rows and columns of a sheet, in SpecGrid
MaxStem == 1        \* letters of a file name before its extension, in SpecType
MaxNodes == 3       \* entries of a directory tree, in SpecGather
MaxFiles == 3       \* files gathered for one run of main, in SpecMain
MaxPreferUnits == 2 \* units of a document, in SpecPrefer

-----------------------------------------------------------------------------
(* Text: Python's str.lower, str.upper, str.strip and the `in` operator.    *)
(* Characters: the cased ASCII letters of AsciiLower and AsciiUpper;       *)
(* "micro" is the micro sign U+00B5, whose upper case is "MU" (U+039C),    *)
(* whose lower case is "mu" (U+03BC); " " is whitespace; "." is the dot.   *)

AsciiLower == <<"a", "c", "d", "e", "f", "g", "i", "j", "l", "n", "o", "p", "s", "t", "x">>

AsciiUpper == <<"A", "C", "D", "E", "F", "G", "I", "J", "L", "N", "O", "P", "S", "T", "X">>

IndexIn(letters, c) == CHOOSE i \in 1..Len(letters) : letters[i] = c

LowerChar(c) ==
    CASE \E i \in 1..Len(AsciiUpper) : AsciiUpper[i] = c ->
            AsciiLower[IndexIn(AsciiUpper, c)]
      [] c = "MU" -> "mu"
      [] OTHER -> c

UpperChar(c) ==
    CASE \E i \in 1..Len(AsciiLower) : AsciiLower[i] = c ->
            AsciiUpper[IndexIn(AsciiLower, c)]
      [] c = "micro" -> "MU"
      [] c = "mu" -> "MU"
      [] OTHER -> c

Lower(s) == [i \in 1..Len(s) |-> LowerChar(s[i])]

Upper(s) == [i \in 1..Len(s) |-> UpperChar(s[i])]

IsSpace(c) == c = " "

RECURSIVE LStrip(_)
LStrip(s) == IF s # <<>> /\ IsSpace(Head(s)) THEN LStrip(Tail(s)) ELSE s

RECURSIVE RStrip(_)
RStrip(s) ==
    IF s # <<>> /\ IsSpace(s[Len(s)]) THEN RStrip(SubSeq(s, 1, Len(s) - 1)) ELSE s

Strip(s) == RStrip(LStrip(s))

\* q in t
Contains(q, t) ==
    \E i \in 0..(Len(t) - Len(q)) : SubSeq(t, i + 1, i + Len(q)) = q

\* sorted(S) for a set of integers
RECURSIVE SortAsc(_)
SortAsc(S) ==
    IF S = {} THEN <<>>
    ELSE LET m == CHOOSE x \in S : \A y \in S : x <= y
         IN  <<m>> \o SortAsc(S \ {m})

SeqsUpTo(S, n) == UNION {[1..k -> S] : k \in 0..n}

-----------------------------------------------------------------------------
(* The match locators.  A page and an OCR result are sequences of word     *)
(* texts; a sheet is a sequence of rows of cell values, <<>> being an      *)
(* empty cell (None).  A word's or cell's position in its unit stands for  *)
(* its rectangle.                                                          *)

\* pdf_handler.find_matches_in_pdf, lines 22-33: the matches of one page
RECURSIVE PageMatches(_, _, _, _)
PageMatches(words, q, pnm, i) ==
    IF i > Len(words) THEN <<>>
    ELSE LET text == Strip(words[i])
         IN  (IF Contains(q, Lower(text))
              THEN <<[page |-> pnm, word |-> i, text |-> text]>>
              ELSE <<>>) \o PageMatches(words, q, pnm, i + 1)

RECURSIVE PagesMatches(_, _, _)
PagesMatches(pages, q, p) ==
    IF p > Len(pages) THEN <<>>
    ELSE PageMatches(pages[p], q, p - 1, 1) \o PagesMatches(pages, q, p + 1)

\* the effective query of each locator
PdfQ(qry) == Strip(Lower(qry))

SheetQ(qry) == Strip(Lower(qry))

ImageQ(qry) == Lower(qry)

find_matches_in_pdf(pages, qry) == PagesMatches(pages, PdfQ(qry), 1)

\* excel_handler.find_matches_in_sheet: row-major over 1..max_row x 1..max_column
RECURSIVE SheetMatches(_, _, _, _)
SheetMatches(ws, q, r, c) ==
    IF r > Len(ws) THEN <<>>
    ELSE IF c > Len(ws[r]) THEN SheetMatches(ws, q, r + 1, 1)
    ELSE (IF ws[r][c] # <<>> /\ Contains(q, Lower(ws[r][c]))
          THEN <<(<<r, c>>)>>
          ELSE <<>>) \o SheetMatches(ws, q, r, c + 1)

find_matches_in_sheet(ws, qry) == SheetMatches(ws, SheetQ(qry), 1, 1)

\* image_handler.extract_boxes: one box per matching OCR word
RECURSIVE BoxMatches(_, _, _)
BoxMatches(words, q, i) ==
    IF i > Len(words) THEN <<>>
    ELSE LET word == Strip(words[i])
         IN  (IF word # <<>> /\ Contains(q, Lower(word))
              THEN <<i>>
              ELSE <<>>) \o BoxMatches(words, q, i + 1)

extract_boxes(words, qry) == BoxMatches(words, ImageQ(qry), 1)

-----------------------------------------------------------------------------
(* SpecMatch: a locator is run on a query, then on a variant of it.        *)

Locators == {"pdf", "sheet", "image"}

QueryAlphabet == {"a", "A", "micro", " "}

Texts == {<<>>, <<"a">>, <<"A", "a">>, <<"micro", "A">>, <<" ", "a">>}

GridCells == {<<>>, <<"micro", "A">>}

WordLists == SeqsUpTo(Texts, MaxWords)

Grids == UNION {[1..r -> [1..c -> GridCells]] : r \in 1..MaxWords, c \in 1..MaxWords}

Locate(loc, content, qry) ==
    CASE loc = "pdf" -> find_matches_in_pdf(<<content>>, qry)
      [] loc = "sheet" -> find_matches_in_sheet(content, qry)
      [] loc = "image" -> extract_boxes(content, qry)

Padded(qry) == {<<" ">> \o qry, qry \o <<" ">>, <<" ">> \o qry \o <<" ">>}

MatchIdle ==
    /\ m_loc = "pdf" /\ m_content = <<>> /\ m_query = <<>> /\ m_pc = "off"
    /\ m_base = <<>> /\ m_varkind = "none" /\ m_varq = <<>> /\ m_varres = <<>>

MatchInit ==
    /\ m_loc \in Locators
    /\ m_content \in (IF m_loc = "sheet" THEN Grids ELSE WordLists)
    /\ m_query \in SeqsUpTo(QueryAlphabet, MaxQueryLen)
    /\ m_pc = "init"
    /\ m_base = <<>> /\ m_varkind = "none" /\ m_varq = <<>> /\ m_varres = <<>>

LocateBase ==
    /\ m_pc = "init"
    /\ m_base' = Locate(m_loc, m_content, m_query)
    /\ m_pc' = "base"
    /\ UNCHANGED <<notMatch, m_loc, m_content, m_query, m_varkind, m_varq,
                   m_varres>>

LocateVariant(vkind, q2) ==
    /\ m_pc = "base"
    /\ m_varkind' = vkind
    /\ m_varq' = q2
    /\ m_varres' = Locate(m_loc, m_content, q2)
    /\ m_pc' = "done"
    /\ UNCHANGED <<notMatch, m_loc, m_content, m_query, m_base>>

LocateUpper == LocateVariant("upper", Upper(m_query))

LocateLower == LocateVariant("lower", Lower(m_query))

LocatePadded == \E q2 \in Padded(m_query) : LocateVariant("padded", q2)

-----------------------------------------------------------------------------
(* draw_fallback's mapping of a native rect to pixels.                     *)

Abs(x) == IF x < 0 THEN -x ELSE x

\* a mutant of Trunc: floor division (Python's //) in place of int(.)
TruncAsFloor(num, den) == num \div den

\* int(num / den) for den > 0: Python's int() truncates toward zero
Trunc(num, den) == IF num >= 0 THEN num \div den ELSE -((-num) \div den)

\* a mutant of MapRect: scale_x is used for both axes
MapRectOneScale(r, page_pts, img_size) ==
    <<Trunc(r[1] * img_size[1], page_pts[1]), Trunc(r[2] * img_size[1], page_pts[1]),
      Trunc(r[3] * img_size[1], page_pts[1]), Trunc(r[4] * img_size[1], page_pts[1])>>

\* pdf_handler.draw_fallback, lines 73-85: r = <<x0, top, x1, bottom>>,
\* scale_x = img_w / page_w, scale_y = img_h / page_h, each coordinate int(r * scale)
MapRect(r, page_pts, img_size) ==
    LET img_w == img_size[1]
        img_h == img_size[2]
        page_w == page_pts[1]
        page_h == page_pts[2]
    IN  <<Trunc(r[1] * img_w, page_w), Trunc(r[2] * img_h, page_h),
          Trunc(r[3] * img_w, page_w), Trunc(r[4] * img_h, page_h)>>

-----------------------------------------------------------------------------
(* SpecMap: one native rect of one page is drawn by draw_fallback on two   *)
(* rasters of the page.                                                    *)

Coords == -1..MaxCoord

NativeRects ==
    {r \in Coords \X Coords \X Coords \X Coords : r[1] <= r[3] /\ r[2] <= r[4]}

NativeDims == (1..MaxNative) \X (1..MaxNative)

RasterDims == (1..MaxRaster) \X (1..MaxRaster)

\* the example of the specification: a 600x800 pt page rendered at 900x1200 px
ExamplePage == <<600, 800>>

ExampleRect == <<100, 200, 160, 220>>

ExampleRasters == {<<900, 1200>>, <<1800, 2400>>}

RastersOf(page_pts) == IF page_pts = ExamplePage THEN ExampleRasters ELSE RasterDims

MapIdle ==
    /\ g_pc = "off" /\ g_page_pts = <<1, 1>> /\ g_rect = <<0, 0, 0, 0>>
    /\ g_img1 = <<1, 1>> /\ g_out1 = <<0, 0, 0, 0>>
    /\ g_img2 = <<1, 1>> /\ g_out2 = <<0, 0, 0, 0>>

MapInit ==
    /\ g_pc = "init"
    /\ \/ g_page_pts \in NativeDims /\ g_rect \in NativeRects
       \/ g_page_pts = ExamplePage /\ g_rect = ExampleRect
    /\ g_img1 = <<1, 1>> /\ g_out1 = <<0, 0, 0, 0>>
    /\ g_img2 = <<1, 1>> /\ g_out2 = <<0, 0, 0, 0>>

\* draw_fallback on the first raster
DrawFirst ==
    /\ g_pc = "init"
    /\ \E img \in RastersOf(g_page_pts) :
        /\ g_img1' = img
        /\ g_out1' = MapRect(g_rect, g_page_pts, img)
    /\ g_pc' = "one"
    /\ UNCHANGED <<notMap, g_page_pts, g_rect, g_img2, g_out2>>

\* draw_fallback on a second raster of the same page
DrawSecond ==
    /\ g_pc = "one"
    /\ \E img \in RastersOf(g_page_pts) :
        /\ g_img2' = img
        /\ g_out2' = MapRect(g_rect, g_page_pts, img)
    /\ g_pc' = "two"
    /\ UNCHANGED <<notMap, g_page_pts, g_rect, g_img1, g_out1>>

-----------------------------------------------------------------------------
(* The format pipelines.  Files are named by what they hold and by unit.   *)

\* d[k] = v on a dict
Put(d, k, v) == [x \in DOMAIN d \cup {k} |-> IF x = k THEN v ELSE d[x]]

\* the handle pdfplumber.open returns
PdfHandle == "pdf"

\* a mutant of ClosePdf: leaving the with block does not close the document
ClosePdfLeaks(hs) == hs

\* pdf_handler line 125: leaving the with block, by its end or by an exception,
\* closes the document
ClosePdf(hs) == hs \ {PdfHandle}

\* the handle of the workbook archive openpyxl reads
WorkbookHandle == "xlsx"

\* excel_handler lines 279-280: openpyxl.load_workbook without read_only opens the
\* archive, reads all of it and closes it before it returns
LoadWorkbook(hs) == (hs \cup {WorkbookHandle}) \ {WorkbookHandle}

\* (page.width, page.height) of a page: positive, or degenerate
PageDims == {<<600, 800>>, <<0, 800>>, <<600, -800>>}

\* pdf_handler lines 76-77: img_w / page_w and img_h / page_h raise
\* ZeroDivisionError for a zero dimension (and only for zero)
ScaleRaises(pts) == pts[1] = 0 \/ pts[2] = 0

FallbackPath(p) == [file |-> "annot_fallback", unit |-> p]

\* a mutant of DrawrectPath: draw_with_drawrect is given the fallback raster's path
DrawrectPathAliased(p) == FallbackPath(p)

DrawrectPath(p) == [file |-> "annot_drawrect", unit |-> p]

SheetPath(p) == [file |-> "sheet_annot", unit |-> p]

ImagePath == [file |-> "image_annot", unit |-> 0]

AnnotatedXlsx == [file |-> "annotated_xlsx", unit |-> 0]

CombinedPath == "annotated_combined.pdf"

Event(o, u, k) == [op |-> o, unit |-> u, n |-> k]

\* matches_by_page.get(pnum, [])
MatchesByPage(ms, p) == SelectSeq(ms, LAMBDA m : m.page = p)

\* a mutant of ShouldSkip: the force_render option is ignored
ShouldSkipIgnoringForce(page_matches, force) == page_matches = <<>>

\* pdf_handler line 129: not page_matches and not force_render
ShouldSkip(page_matches, force) == page_matches = <<>> /\ ~force

\* a mutant of Ordered: the keys are sorted in descending order
OrderedDescending(chosen) ==
    LET keys == SortAsc(DOMAIN chosen)
    IN  [i \in 1..Len(keys) |-> chosen[keys[Len(keys) + 1 - i]]]

\* pdf_handler line 157: [chosen_images[k] for k in sorted(chosen_images.keys())]
Ordered(chosen) ==
    LET keys == SortAsc(DOMAIN chosen)
    IN  [i \in 1..Len(keys) |-> chosen[keys[i]]]

\* a pathlib.Path is truthy whatever it names
Truthy(path) == TRUE

\* the documents annotate_pdf_and_build_combined works on: a pdf, or the pdf
\* process_word_file converted a docx to
PdfKinds == {"pdf", "docx"}

\* a mutant of PdfPathExists: the path is taken to exist
PdfPathAssumed == TRUE

\* the pdf the pipeline is given: the converted one for a docx
PdfPathExists == IF kind = "docx" THEN temp_pdf ELSE exists

\* pdf_handler lines 113-125: find_matches_in_pdf opens the document (line 20),
\* which raises when the path does not exist, and closes it on leaving its with
\* block; line 125 opens it again for the page loop
PdfStart ==
    /\ app_pc = "runner"
    /\ (runner = "run_pdf" /\ pc = "start") \/ (runner = "run_docx" /\ pc = "delegate")
    /\ IF ~PdfPathExists
       THEN /\ pc' = "raised"
            /\ UNCHANGED <<matches, log, chosen_images, pnum, handles>>
       ELSE /\ matches' = find_matches_in_pdf(doc, query)
            /\ log' = Append(log, Event("locate", -1, Len(PdfQ(query))))
            /\ chosen_images' = <<>>
            /\ pnum' = 0
            /\ handles' = ClosePdf(handles \cup {PdfHandle}) \cup {PdfHandle}
            /\ pc' = "loop"
    /\ UNCHANGED <<notRun, callVars, exists, page_dims, raster,
                   entry, arg_query, kind, doc, force_render, app_pc, query, ordered,
                   generated_images, files, combined_file, combined_made, ret,
                   result, failed>>

\* a mutant of NextUnit: the loop stays on its unit
NextUnitRepeats(p) == p

\* pdf_handler line 126: enumerate(pdf.pages) hands out the units one by one
NextUnit(p) == p + 1

\* pdf_handler lines 126-130: the loop head
PdfNextPage ==
    /\ kind \in PdfKinds /\ pc = "loop"
    /\ IF pnum = Len(doc)
       THEN pc' = "aggregate" /\ pnum' = pnum /\ handles' = ClosePdf(handles)
       ELSE /\ UNCHANGED handles
            /\ IF ShouldSkip(MatchesByPage(matches, pnum), force_render)
               THEN pc' = "loop" /\ pnum' = NextUnit(pnum)
               ELSE pc' = "render" /\ pnum' = pnum
    /\ UNCHANGED <<notRun, callVars, exists, page_dims, raster,
                   entry, arg_query, kind, doc, force_render, app_pc, query, matches,
                   chosen_images, ordered, generated_images, files, combined_file,
                   combined_made, ret, result, failed, log>>

\* pdf_handler line 132: render_page returns, or raises out of the pipeline
PdfRenderPage ==
    /\ kind \in PdfKinds /\ pc = "render"
    /\ \/ /\ log' = Append(log, Event("render", pnum, 0))
          /\ pc' = "fallback"
          /\ UNCHANGED <<failed, handles>>
       \/ /\ failed' = failed \cup {pnum}
          /\ handles' = ClosePdf(handles)
          /\ pc' = "raised"
          /\ UNCHANGED log
    /\ UNCHANGED <<notRun, callVars, exists, page_dims, raster,
                   entry, arg_query, kind, doc, force_render, app_pc, query, pnum,
                   matches, chosen_images, ordered, generated_images, files,
                   combined_file, combined_made, ret, result>>

\* pdf_handler lines 134-142 and 71-91: draw_fallback computes the scales from
\* (page.width, page.height), draws one box per match of the page on a copy of the
\* raster and saves it; a zero dimension, or a failure of the drawing or saving,
\* raises out of the pipeline
PdfDrawFallback ==
    /\ kind \in PdfKinds /\ pc = "fallback"
    /\ \E pts \in PageDims :
        /\ page_dims' = Put(page_dims, pnum, pts)
        /\ \/ /\ ~ScaleRaises(pts)
              /\ files' = files \cup {FallbackPath(pnum)}
              /\ raster' = Put(raster, FallbackPath(pnum),
                               [by |-> "draw_fallback",
                                boxes |-> Len(MatchesByPage(matches, pnum))])
              /\ log' = Append(log, Event("fallback", pnum,
                                          Len(MatchesByPage(matches, pnum))))
              /\ pc' = "record"
              /\ UNCHANGED <<failed, handles>>
           \/ /\ failed' = failed \cup {pnum}
              /\ handles' = ClosePdf(handles)
              /\ pc' = "raised"
              /\ UNCHANGED <<files, raster, log>>
    /\ UNCHANGED <<notRun, callVars, exists,
                   entry, arg_query, kind, doc, force_render, app_pc, query, pnum,
                   matches, chosen_images, ordered, generated_images, combined_file,
                   combined_made, ret, result>>

\* pdf_handler line 144
PdfRecord ==
    /\ kind \in PdfKinds /\ pc = "record"
    /\ chosen_images' = [k \in DOMAIN chosen_images \cup {pnum} |->
                            IF k = pnum THEN FallbackPath(pnum) ELSE chosen_images[k]]
    /\ log' = Append(log, Event("record", pnum, 0))
    /\ pc' = "native"
    /\ UNCHANGED <<notRun, callVars, exists, page_dims, raster, handles,
                   entry, arg_query, kind, doc, force_render, app_pc, query, pnum,
                   matches, ordered, generated_images, files, combined_file,
                   combined_made, ret, result, failed>>

\* pdf_handler lines 146-155 and 51-65: draw_with_drawrect saves its raster, or
\* fails inside, which it catches
PdfDrawRect ==
    /\ kind \in PdfKinds /\ pc = "native"
    /\ \/ /\ files' = files \cup {DrawrectPath(pnum)}
          /\ raster' = Put(raster, DrawrectPath(pnum),
                           [by |-> "draw_with_drawrect", boxes |-> 0])
          /\ log' = Append(log, Event("native", pnum, 1))
       \/ /\ log' = Append(log, Event("native", pnum, 0))
          /\ UNCHANGED <<files, raster>>
    /\ pnum' = NextUnit(pnum)
    /\ pc' = "loop"
    /\ UNCHANGED <<notRun, callVars, exists, page_dims, handles,
                   entry, arg_query, kind, doc, force_render, app_pc, query, matches,
                   chosen_images, ordered, generated_images, combined_file,
                   combined_made, ret, result, failed>>

\* pdf_handler lines 157-162 and 97-99: images_to_pdf writes the pages in the order
\* of the list, or raises out of the pipeline
PdfAggregate ==
    /\ kind \in PdfKinds /\ pc = "aggregate"
    /\ ordered' = Ordered(chosen_images)
    /\ IF ordered' # <<>>
       THEN \/ /\ combined_file' = ordered'
               /\ combined_made' = TRUE
               /\ log' = Append(log, Event("aggregate", -1, Len(ordered')))
               /\ pc' = "return"
            \/ /\ log' = Append(log, Event("aggregate_failed", -1, Len(ordered')))
               /\ pc' = "raised"
               /\ UNCHANGED <<combined_file, combined_made>>
       ELSE /\ pc' = "return"
            /\ UNCHANGED <<combined_file, combined_made, log>>
    /\ UNCHANGED <<notRun, callVars, exists, page_dims, raster, handles,
                   entry, arg_query, kind, doc, force_render, app_pc, query, pnum,
                   matches, chosen_images, generated_images, files, ret, result,
                   failed>>

\* pdf_handler line 164
PdfReturn ==
    /\ kind \in PdfKinds /\ pc = "return"
    /\ ret' = [pages |-> ordered, combined |-> CombinedPath]
    /\ pc' = "returned"
    /\ UNCHANGED <<notRun, callVars, exists, page_dims, raster, handles,
                   entry, arg_query, kind, doc, force_render, app_pc, query, pnum,
                   matches, chosen_images, ordered, generated_images, files,
                   combined_file, combined_made, result, failed, log>>

\* excel_handler lines 268-286: FileNotFoundError when the path does not exist;
\* openpyxl.load_workbook (not read_only) reads the whole archive and closes it
\* before it returns, so no handle stays open
ExcelStart ==
    /\ app_pc = "runner" /\ runner = "run_excel" /\ pc = "start"
    /\ IF ~exists
       THEN /\ pc' = "raised"
            /\ UNCHANGED <<generated_images, pnum, handles>>
       ELSE /\ generated_images' = <<>>
            /\ pnum' = 0
            /\ handles' = LoadWorkbook(LoadWorkbook(handles))
            /\ pc' = "sheet"
    /\ UNCHANGED <<notRun, callVars, exists, page_dims, raster,
                   entry, arg_query, kind, doc, force_render, app_pc, query, matches,
                   chosen_images, ordered, files, combined_file, combined_made, ret,
                   result, failed, log>>

\* excel_handler lines 288-308: the loop head and the sheet's match_cells
ExcelSheet ==
    /\ kind = "excel" /\ pc = "sheet"
    /\ IF pnum = Len(doc)
       THEN /\ pc' = "save"
            /\ UNCHANGED <<matches, log>>
       ELSE /\ matches' = find_matches_in_sheet(doc[pnum + 1], query)
            /\ log' = Append(log, Event("locate", pnum, Len(SheetQ(query))))
            /\ pc' = "render"
    /\ UNCHANGED <<notRun, callVars, exists, page_dims, raster, handles,
                   entry, arg_query, kind, doc, force_render, app_pc, query, pnum,
                   chosen_images, ordered, generated_images, files, combined_file,
                   combined_made, ret, result, failed>>

\* excel_handler lines 310-315: render_sheet_to_image returns (having run the
\* locator once more, line 228), or raises, which is caught: the next sheet follows
ExcelRender ==
    /\ kind = "excel" /\ pc = "render"
    /\ \/ /\ log' = Append(Append(log, Event("render", pnum, 0)),
                           Event("locate", pnum, Len(SheetQ(query))))
          /\ pc' = "draw"
          /\ UNCHANGED <<pnum, failed>>
       \/ /\ failed' = failed \cup {pnum}
          /\ pnum' = pnum + 1
          /\ pc' = "sheet"
          /\ UNCHANGED log
    /\ UNCHANGED <<notRun, callVars, exists, page_dims, raster, handles,
                   entry, arg_query, kind, doc, force_render, app_pc, query, matches,
                   chosen_images, ordered, generated_images, files, combined_file,
                   combined_made, ret, result>>

\* excel_handler lines 317-320: draw_matches_on_image draws the match cells and
\* saves the raster, or raises out of the pipeline
ExcelDraw ==
    /\ kind = "excel" /\ pc = "draw"
    /\ \/ /\ files' = files \cup {SheetPath(pnum)}
          /\ raster' = Put(raster, SheetPath(pnum),
                           [by |-> "draw_matches_on_image", boxes |-> Len(matches)])
          /\ generated_images' = Append(generated_images, SheetPath(pnum))
          /\ log' = Append(log, Event("draw", pnum, Len(matches)))
          /\ pnum' = pnum + 1
          /\ pc' = "sheet"
          /\ UNCHANGED failed
       \/ /\ failed' = failed \cup {pnum}
          /\ pc' = "raised"
          /\ UNCHANGED <<files, raster, generated_images, log, pnum>>
    /\ UNCHANGED <<notRun, callVars, exists, page_dims, handles,
                   entry, arg_query, kind, doc, force_render, app_pc, query, matches,
                   chosen_images, ordered, combined_file, combined_made, ret, result>>

\* excel_handler lines 322-328: the annotated workbook is saved, or the failure
\* is caught
ExcelSave ==
    /\ kind = "excel" /\ pc = "save"
    /\ \/ files' = files \cup {AnnotatedXlsx}
       \/ UNCHANGED files
    /\ pc' = "aggregate"
    /\ UNCHANGED <<notRun, callVars, exists, page_dims, raster, handles,
                   entry, arg_query, kind, doc, force_render, app_pc, query, pnum,
                   matches, chosen_images, ordered, generated_images, combined_file,
                   combined_made, ret, result, failed, log>>

\* excel_handler lines 330-339: images_to_pdf, whose failure is caught
ExcelAggregate ==
    /\ kind = "excel" /\ pc = "aggregate"
    /\ IF generated_images # <<>>
       THEN \/ /\ combined_file' = generated_images
               /\ combined_made' = TRUE
               /\ log' = Append(log, Event("aggregate", -1, Len(generated_images)))
            \/ /\ log' = Append(log, Event("aggregate_failed", -1,
                                            Len(generated_images)))
               /\ UNCHANGED <<combined_file, combined_made>>
       ELSE UNCHANGED <<combined_file, combined_made, log>>
    /\ pc' = "return"
    /\ UNCHANGED <<notRun, callVars, exists, page_dims, raster, handles,
                   entry, arg_query, kind, doc, force_render, app_pc, query, pnum,
                   matches, chosen_images, ordered, generated_images, files, ret,
                   result, failed>>

\* excel_handler line 341 (the annotated workbook's name, also returned, is left out)
ExcelReturn ==
    /\ kind = "excel" /\ pc = "return"
    /\ ret' = [pages |-> generated_images, combined |-> CombinedPath]
    /\ pc' = "returned"
    /\ UNCHANGED <<notRun, callVars, exists, page_dims, raster, handles,
                   entry, arg_query, kind, doc, force_render, app_pc, query, pnum,
                   matches, chosen_images, ordered, generated_images, files,
                   combined_file, combined_made, result, failed, log>>

\* docx_handler lines 126-134: FileNotFoundError when the path does not exist;
\* otherwise the temporary directory is created
DocxStart ==
    /\ app_pc = "runner" /\ runner = "run_docx" /\ pc = "start"
    /\ IF ~exists
       THEN pc' = "raised" /\ UNCHANGED tmpdir
       ELSE pc' = "convert" /\ tmpdir' = TRUE
    /\ UNCHANGED <<notRun, fname, runner, out_subdir, dirs, temp_pdf,
                   exists, page_dims, raster, handles,
                   entry, arg_query, kind, doc, force_render, app_pc, query, pnum,
                   matches, chosen_images, ordered, generated_images, files,
                   combined_file, combined_made, ret, result, failed, log>>

\* what a converter can do: write the target pdf or not, and return or raise
\* (docx2pdf missing is an ImportError raised inside the try block)
Docx2pdfOutcomes == [raises : BOOLEAN, file : BOOLEAN]

\* LibreOffice may also be absent from the PATH; it is not run then
LibreOfficeOutcomes ==
    {o \in [found : BOOLEAN, raises : BOOLEAN, file : BOOLEAN] :
        ~o.found => (~o.raises /\ ~o.file)}

\* docx_handler lines 27-39: out_pdf_path.exists() when convert returns, False
\* when it raises
convert_with_docx2pdf(o) == IF o.raises THEN FALSE ELSE o.file

\* docx_handler lines 42-74: False without soffice or libreoffice on the PATH and
\* when the subprocess fails, else whether the target exists
convert_with_libreoffice(o) ==
    IF ~o.found THEN FALSE
    ELSE IF o.raises THEN FALSE
    ELSE o.file

\* a mutant of LeaveTmp: the directory is left behind
LeaveTmpKeeps(t) == t

\* docx_handler line 134: leaving the with block of tempfile.TemporaryDirectory
\* removes the directory
LeaveTmp(t) == FALSE

\* docx_handler lines 136-139 and 77-100: convert_docx_to_pdf tries docx2pdf,
\* then LibreOffice, and raises RuntimeError when neither reports the target;
\* the exception leaves the with block
DocxConvert ==
    /\ kind = "docx" /\ pc = "convert"
    /\ \E d \in Docx2pdfOutcomes, l \in LibreOfficeOutcomes :
        IF convert_with_docx2pdf(d)
        THEN /\ log' = Append(log, Event("docx2pdf", -1, 1))
             /\ temp_pdf' = TRUE
             /\ pc' = "delegate"
             /\ UNCHANGED tmpdir
        ELSE IF convert_with_libreoffice(l)
        THEN /\ log' = log \o <<Event("docx2pdf", -1, 0), Event("libreoffice", -1, 1)>>
             /\ temp_pdf' = TRUE
             /\ pc' = "delegate"
             /\ UNCHANGED tmpdir
        ELSE /\ log' = log \o <<Event("docx2pdf", -1, 0), Event("libreoffice", -1, 0)>>
             /\ temp_pdf' = FALSE
             /\ tmpdir' = LeaveTmp(tmpdir)
             /\ pc' = "raised"
    /\ UNCHANGED <<notRun, fname, runner, out_subdir, dirs,
                   exists, page_dims, raster, handles,
                   entry, arg_query, kind, doc, force_render, app_pc, query, pnum,
                   matches, chosen_images, ordered, generated_images, files,
                   combined_file, combined_made, ret, result, failed>>

\* docx_handler line 134: an exception of the pdf pipeline leaves the with block
DocxUnwind ==
    /\ kind = "docx" /\ pc = "raised" /\ tmpdir
    /\ tmpdir' = LeaveTmp(tmpdir)
    /\ temp_pdf' = FALSE
    /\ UNCHANGED <<notRun, fname, runner, out_subdir, dirs,
                   exists, page_dims, raster, handles,
                   entry, arg_query, kind, doc, force_render, app_pc, query, pc, pnum,
                   matches, chosen_images, ordered, generated_images, files,
                   combined_file, combined_made, ret, result, failed, log>>

\* docx_handler lines 208-227: the pages as strings, and
\* combined = str(combined) if combined else None; returning leaves the with block
DocxReturn ==
    /\ kind = "docx" /\ pc = "returned"
    /\ ret' = [pages |-> ret.pages,
               combined |-> IF Truthy(ret.combined) THEN ret.combined ELSE "None"]
    /\ tmpdir' = LeaveTmp(tmpdir)
    /\ temp_pdf' = FALSE
    /\ pc' = "normalised"
    /\ UNCHANGED <<notRun, fname, runner, out_subdir, dirs,
                   exists, page_dims, raster, handles,
                   entry, arg_query, kind, doc, force_render, app_pc, query, pnum,
                   matches, chosen_images, ordered, generated_images, files,
                   combined_file, combined_made, result, failed, log>>

\* image_handler lines 78-90: FileNotFoundError when the path does not exist
ImageStart ==
    /\ app_pc = "runner" /\ runner = "run_image" /\ pc = "start"
    /\ IF ~exists
       THEN /\ pc' = "raised"
            /\ UNCHANGED <<matches, log, pnum>>
       ELSE /\ matches' = extract_boxes(doc[1], query)
            /\ log' = Append(log, Event("locate", 0, Len(ImageQ(query))))
            /\ pnum' = 0
            /\ pc' = "draw"
    /\ UNCHANGED <<notRun, callVars, exists, page_dims, raster, handles,
                   entry, arg_query, kind, doc, force_render, app_pc, query,
                   chosen_images, ordered, generated_images, files, combined_file,
                   combined_made, ret, result, failed>>

\* image_handler lines 92-94: draw_boxes draws the boxes and saves the raster, or
\* raises out of the pipeline
ImageDraw ==
    /\ kind = "image" /\ pc = "draw"
    /\ \/ /\ files' = files \cup {ImagePath}
          /\ raster' = Put(raster, ImagePath,
                           [by |-> "draw_boxes", boxes |-> Len(matches)])
          /\ log' = Append(log, Event("draw", 0, Len(matches)))
          /\ pc' = "aggregate"
          /\ UNCHANGED failed
       \/ /\ failed' = failed \cup {0}
          /\ pc' = "raised"
          /\ UNCHANGED <<files, raster, log>>
    /\ UNCHANGED <<notRun, callVars, exists, page_dims, handles,
                   entry, arg_query, kind, doc, force_render, app_pc, query, pnum,
                   matches, chosen_images, ordered, generated_images, combined_file,
                   combined_made, ret, result>>

\* image_handler lines 98-99: images_to_pdf, which may raise out of the pipeline
ImageAggregate ==
    /\ kind = "image" /\ pc = "aggregate"
    /\ \/ /\ combined_file' = <<ImagePath>>
          /\ combined_made' = TRUE
          /\ log' = Append(log, Event("aggregate", -1, 1))
          /\ pc' = "return"
       \/ /\ log' = Append(log, Event("aggregate_failed", -1, 1))
          /\ pc' = "raised"
          /\ UNCHANGED <<combined_file, combined_made>>
    /\ UNCHANGED <<notRun, callVars, exists, page_dims, raster, handles,
                   entry, arg_query, kind, doc, force_render, app_pc, query, pnum,
                   matches, chosen_images, ordered, generated_images, files, ret,
                   result, failed>>

\* image_handler line 103 (the one path is returned bare; run_image lists it)
ImageReturn ==
    /\ kind = "image" /\ pc = "return"
    /\ ret' = [pages |-> <<ImagePath>>, combined |-> CombinedPath]
    /\ pc' = "returned"
    /\ UNCHANGED <<notRun, callVars, exists, page_dims, raster, handles,
                   entry, arg_query, kind, doc, force_render, app_pc, query, pnum,
                   matches, chosen_images, ordered, generated_images, files,
                   combined_file, combined_made, result, failed, log>>

-----------------------------------------------------------------------------
(* Orchestration: app.py                                                   *)

\* app.main lines 290-311: without a query on the command line (or with an empty
\* one) the query is prompted for
MainArgs ==
    /\ entry = "main" /\ app_pc = "main"
    /\ IF arg_query = <<>>
       THEN app_pc' = "prompt" /\ UNCHANGED query
       ELSE app_pc' = "process" /\ query' = arg_query
    /\ UNCHANGED <<notRun, callVars, exists, page_dims, raster, handles,
                   entry, arg_query, kind, doc, force_render, pc, pnum, matches,
                   chosen_images, ordered, generated_images, files, combined_file,
                   combined_made, ret, result, failed, log>>

\* app.interactive_prompt lines 263-270: asks again until the stripped input is
\* not empty
InteractivePrompt(inp) ==
    /\ app_pc = "prompt"
    /\ LET q == Strip(inp)
       IN  IF q = <<>>
           THEN UNCHANGED <<app_pc, query>>
           ELSE app_pc' = "process" /\ query' = q
    /\ UNCHANGED <<notRun, callVars, exists, page_dims, raster, handles,
                   entry, arg_query, kind, doc, force_render, pc, pnum, matches,
                   chosen_images, ordered, generated_images, files, combined_file,
                   combined_made, ret, result, failed, log>>

\* app.run_pdf lines 164-167
RunPdf ==
    /\ app_pc = "runner" /\ kind = "pdf" /\ pc = "returned"
    /\ result' = [pages |-> ret.pages,
                  combined |-> IF Truthy(ret.combined) THEN ret.combined ELSE "None"]
    /\ app_pc' = "done"
    /\ UNCHANGED <<notRun, callVars, exists, page_dims, raster, handles,
                   entry, arg_query, kind, doc, force_render, query, pc, pnum, matches,
                   chosen_images, ordered, generated_images, files, combined_file,
                   combined_made, ret, failed, log>>

\* app.run_docx lines 175-179
RunDocx ==
    /\ app_pc = "runner" /\ kind = "docx" /\ pc = "normalised"
    /\ result' = [pages |-> ret.pages,
                  combined |-> IF Truthy(ret.combined) THEN ret.combined ELSE "None"]
    /\ app_pc' = "done"
    /\ UNCHANGED <<notRun, callVars, exists, page_dims, raster, handles,
                   entry, arg_query, kind, doc, force_render, query, pc, pnum, matches,
                   chosen_images, ordered, generated_images, files, combined_file,
                   combined_made, ret, failed, log>>

\* app.run_excel lines 187-195
RunExcel ==
    /\ app_pc = "runner" /\ kind = "excel" /\ pc = "returned"
    /\ result' = [pages |-> ret.pages, combined |-> ret.combined]
    /\ app_pc' = "done"
    /\ UNCHANGED <<notRun, callVars, exists, page_dims, raster, handles,
                   entry, arg_query, kind, doc, force_render, query, pc, pnum, matches,
                   chosen_images, ordered, generated_images, files, combined_file,
                   combined_made, ret, failed, log>>

\* app.run_image lines 203-210
RunImage ==
    /\ app_pc = "runner" /\ kind = "image" /\ pc = "returned"
    /\ result' = [pages |-> ret.pages, combined |-> ret.combined]
    /\ app_pc' = "done"
    /\ UNCHANGED <<notRun, callVars, exists, page_dims, raster, handles,
                   entry, arg_query, kind, doc, force_render, query, pc, pnum, matches,
                   chosen_images, ordered, generated_images, files, combined_file,
                   combined_made, ret, failed, log>>

\* an exception out of the pipeline (past the with block of process_word_file)
\* leaves the runner and process_single_file;
\* app.main lines 353-356 catch it and record the error
RunnerRaises ==
    /\ app_pc = "runner" /\ pc = "raised" /\ ~tmpdir
    /\ app_pc' = "error"
    /\ UNCHANGED <<notRun, callVars, exists, page_dims, raster, handles,
                   entry, arg_query, kind, doc, force_render, query, pc, pnum, matches,
                   chosen_images, ordered, generated_images, files, combined_file,
                   combined_made, ret, result, failed, log>>

-----------------------------------------------------------------------------
(* SpecStroke: a box renderer draws the outlines of one pixel rect.  The   *)
(* three renderers hold the same loop:                                     *)
(*     for w in range(stroke_width):                                       *)
(*         draw.rectangle([x0 - w, y0 - w, x1 + w, y1 + w])                *)

Renderers == {"draw_fallback", "draw_matches_on_image", "draw_boxes"}

PixelRects ==
    {r \in (0..MaxPixel) \X (0..MaxPixel) \X (0..MaxPixel) \X (0..MaxPixel) :
        r[1] <= r[3] /\ r[2] <= r[4]}

StrokeWidths == (-1)..MaxStroke

\* a mutant of InflateBy: the outline grows on the right and bottom sides only
InflateByOneCorner(r, w) == <<r[1], r[2], r[3] + w, r[4] + w>>

\* pdf_handler line 88, excel_handler line 259, image_handler line 66:
\* [x0 - w, y0 - w, x1 + w, y1 + w]
InflateBy(r, w) == <<r[1] - w, r[2] - w, r[3] + w, r[4] + w>>

StrokeIdle ==
    /\ k_fn = "draw_fallback" /\ k_rect = <<0, 0, 0, 0>> /\ k_width = 0
    /\ k_w = 0 /\ k_outlines = <<>> /\ k_pc = "off"

StrokeInit ==
    /\ k_fn \in Renderers /\ k_rect \in PixelRects /\ k_width \in StrokeWidths
    /\ k_w = 0 /\ k_outlines = <<>> /\ k_pc = "loop"

\* one turn of the loop: w in range(stroke_width)
DrawOutline ==
    /\ k_pc = "loop" /\ k_w < k_width
    /\ k_outlines' = Append(k_outlines, InflateBy(k_rect, k_w))
    /\ k_w' = k_w + 1
    /\ UNCHANGED <<notStroke, k_fn, k_rect, k_width, k_pc>>

\* the loop is over (at once when stroke_width <= 0); the image is saved
StrokeSave ==
    /\ k_pc = "loop" /\ ~(k_w < k_width)
    /\ k_pc' = "saved"
    /\ UNCHANGED <<notStroke, k_fn, k_rect, k_width, k_w, k_outlines>>

-----------------------------------------------------------------------------
(* SpecAgg: pdf_handler.images_to_pdf called on a list of raster paths     *)

RasterPaths == {FallbackPath(0), FallbackPath(1), SheetPath(0)}

ImageLists == SeqsUpTo(RasterPaths, MaxUnits)

AggIdle ==
    /\ a_list = <<>> /\ a_unreadable = {} /\ a_pc = "off" /\ a_out = "off"
    /\ a_file = <<>> /\ a_made = FALSE

AggInit ==
    /\ a_list \in ImageLists /\ a_unreadable \in SUBSET RasterPaths
    /\ a_pc = "open" /\ a_out = "off" /\ a_file = <<>> /\ a_made = FALSE

\* pdf_handler line 98: every raster of the list is reopened; one that cannot be
\* raises out of images_to_pdf
AggOpen ==
    /\ a_pc = "open"
    /\ IF \E i \in 1..Len(a_list) : a_list[i] \in a_unreadable
       THEN a_pc' = "raised" /\ a_out' = "OSError"
       ELSE a_pc' = "save" /\ UNCHANGED a_out
    /\ UNCHANGED <<notAgg, a_list, a_unreadable, a_file, a_made>>

\* pdf_handler line 99: imgs[0].save(out_pdf, save_all=True, append_images=imgs[1:]);
\* imgs[0] raises IndexError on an empty list; the function returns None
AggSave ==
    /\ a_pc = "save"
    /\ IF a_list = <<>>
       THEN /\ a_pc' = "raised" /\ a_out' = "IndexError"
            /\ UNCHANGED <<a_file, a_made>>
       ELSE /\ a_file' = a_list /\ a_made' = TRUE
            /\ a_pc' = "done" /\ a_out' = "None"
    /\ UNCHANGED <<notAgg, a_list, a_unreadable>>

-----------------------------------------------------------------------------
(* SpecGrid: excel_handler.render_sheet_to_image lays out the cells of a   *)
(* sheet from the pixel widths of its columns and the pixel heights of its *)
(* rows; draw_matches_on_image then draws the boxes of the matched cells.  *)

CHAR_PX == 7

CELL_PADDING_PX == 8

DEFAULT_CELL_HEIGHT == 30

MIN_COL_PX == 60

\* pixel_width_from_chars(10), the width of a column of the default 10
\* characters: int(n_chars * char_px + pad * 2), which lies above MIN_COL_PX
DefaultColPx == 10 * CHAR_PX + CELL_PADDING_PX * 2

\* the height of a row of two wrapped lines of height 18:
\* max_lines * (line_h + 4) + 8, which lies above DEFAULT_CELL_HEIGHT
TallRowPx == 2 * (18 + 4) + 8

ColWidths == {MIN_COL_PX, DefaultColPx}

RowHeights == {DEFAULT_CELL_HEIGHT, TallRowPx}

\* sum(px)
RECURSIVE SumSeq(_)
SumSeq(px) == IF px = <<>> THEN 0 ELSE Head(px) + SumSeq(Tail(px))

GridCellsOf(rows, cols) == (1..rows) \X (1..cols)

\* a mutant of CellBox: the right and bottom edges lie one pixel further
CellBoxOnePixelWider(x, y, w_px, h_px) == <<x, y, x + w_px + 1, y + h_px + 1>>

\* excel_handler lines 207-209: x0, y0 = x, y; x1, y1 = x + w_px, y + h_px
CellBox(x, y, w_px, h_px) == <<x, y, x + w_px, y + h_px>>

GridIdle ==
    /\ q_col_px = <<>> /\ q_row_px = <<>> /\ q_match = {} /\ q_pc = "off"
    /\ q_img = <<0, 0>> /\ q_r = 0 /\ q_c = 0 /\ q_x = 0 /\ q_y = 0
    /\ q_boxes = <<>> /\ q_drawn = <<>>

GridInit ==
    /\ q_col_px \in UNION {[1..n -> ColWidths] : n \in 1..MaxGrid}
    /\ q_row_px \in UNION {[1..n -> RowHeights] : n \in 1..MaxGrid}
    /\ q_match \in {m \in SUBSET GridCellsOf(Len(q_row_px), Len(q_col_px)) :
                       Cardinality(m) <= 2}
    /\ q_pc = "start"
    /\ q_img = <<0, 0>> /\ q_r = 0 /\ q_c = 0 /\ q_x = 0 /\ q_y = 0
    /\ q_boxes = <<>> /\ q_drawn = <<>>

\* excel_handler lines 195-203: the image is sized, y = 0, the first row begins
GridStart ==
    /\ q_pc = "start"
    /\ q_img' = <<SumSeq(q_col_px), SumSeq(q_row_px)>>
    /\ q_y' = 0 /\ q_r' = 1 /\ q_x' = 0 /\ q_c' = 1
    /\ q_pc' = "cells"
    /\ UNCHANGED <<notGrid, q_col_px, q_row_px, q_match, q_boxes, q_drawn>>

\* excel_handler lines 204-224: the box of cell (r, c); x = x1
GridCell ==
    /\ q_pc = "cells" /\ q_r <= Len(q_row_px) /\ q_c <= Len(q_col_px)
    /\ LET box == CellBox(q_x, q_y, q_col_px[q_c], q_row_px[q_r])
       IN  /\ q_boxes' = Put(q_boxes, <<q_r, q_c>>, box)
           /\ q_x' = box[3]
    /\ q_c' = q_c + 1
    /\ UNCHANGED <<notGrid, q_col_px, q_row_px, q_match, q_pc, q_img, q_r, q_y,
                   q_drawn>>

\* excel_handler lines 225, 202-203: y += row_px[r-1]; the next row begins at x = 0
GridRowEnd ==
    /\ q_pc = "cells" /\ q_r <= Len(q_row_px) /\ q_c > Len(q_col_px)
    /\ q_y' = q_y + q_row_px[q_r]
    /\ q_r' = q_r + 1
    /\ q_x' = 0 /\ q_c' = 1
    /\ UNCHANGED <<notGrid, q_col_px, q_row_px, q_match, q_pc, q_img, q_boxes,
                   q_drawn>>

\* excel_handler lines 252-261: draw_matches_on_image looks up the box of every
\* matched cell in cell_boxes (a cell that is not there is passed over)
GridDrawMatches ==
    /\ q_pc = "cells" /\ q_r > Len(q_row_px)
    /\ q_drawn' = [cell \in q_match \cap DOMAIN q_boxes |-> q_boxes[cell]]
    /\ q_pc' = "drawn"
    /\ UNCHANGED <<notGrid, q_col_px, q_row_px, q_match, q_img, q_r, q_c, q_x, q_y,
                   q_boxes>>

-----------------------------------------------------------------------------
(* SpecType: app.detect_type applied to a path and to a case variant of it *)

ExtPdf == <<".", "p", "d", "f">>

ExtDocx == <<".", "d", "o", "c", "x">>

ExtXlsx == <<".", "x", "l", "s", "x">>

ExtXls == <<".", "x", "l", "s">>

ExtPng == <<".", "p", "n", "g">>

ExtJpg == <<".", "j", "p", "g">>

ExtJpeg == <<".", "j", "p", "e", "g">>

ExtTif == <<".", "t", "i", "f">>

ExtTiff == <<".", "t", "i", "f", "f">>

\* app.py lines 134-144
SUPPORTED_EXTENSIONS ==
    [e \in {ExtPdf, ExtDocx, ExtXlsx, ExtXls, ExtPng, ExtJpg, ExtJpeg, ExtTif, ExtTiff}
       |-> CASE e = ExtPdf -> "pdf"
             [] e = ExtDocx -> "docx"
             [] e = ExtXlsx -> "excel"
             [] e = ExtXls -> "excel"
             [] e = ExtPng -> "image"
             [] e = ExtJpg -> "image"
             [] e = ExtJpeg -> "image"
             [] e = ExtTif -> "image"
             [] e = ExtTiff -> "image"]

\* the index of the last "." of a name, 0 when there is none
LastDot(name) ==
    IF \E i \in 1..Len(name) : name[i] = "."
    THEN CHOOSE i \in 1..Len(name) :
            name[i] = "." /\ \A j \in (i + 1)..Len(name) : name[j] # "."
    ELSE 0

\* pathlib's Path.suffix: the name from its last "." on, unless that "." is the
\* first or the last character of the name
Suffix(name) ==
    LET i == LastDot(name)
    IN  IF 1 < i /\ i < Len(name) THEN SubSeq(name, i, Len(name)) ELSE <<>>

\* a mutant of detect_type: the suffix is looked up as it is written
DetectTypeCaseSensitive(name) ==
    IF Suffix(name) \in DOMAIN SUPPORTED_EXTENSIONS
    THEN SUPPORTED_EXTENSIONS[Suffix(name)]
    ELSE "None"

\* app.py line 145: SUPPORTED_EXTENSIONS.get(path.suffix.lower())
detect_type(name) ==
    IF Lower(Suffix(name)) \in DOMAIN SUPPORTED_EXTENSIONS
    THEN SUPPORTED_EXTENSIONS[Lower(Suffix(name))]
    ELSE "None"

\* every way of writing the letters of s in upper or lower case
CaseVariants(s) == {t \in [1..Len(s) -> {s[i] : i \in 1..Len(s)} \cup
                                         {UpperChar(s[i]) : i \in 1..Len(s)}] :
                       \A i \in 1..Len(s) : t[i] \in {s[i], UpperChar(s[i])}}

\* extensions the table does not hold, and no extension at all
OtherSuffixes == {<<".", "t", "x", "t">>, <<".", "d", "o", "c">>, <<".", "p", "d">>,
                  <<".">>, <<>>}

\* file names: a stem of up to MaxStem letters (none for a hidden file) and a suffix
FileNames ==
    {stem \o sfx : stem \in SeqsUpTo({"f"}, MaxStem),
                   sfx \in UNION {CaseVariants(e) :
                                     e \in DOMAIN SUPPORTED_EXTENSIONS \cup OtherSuffixes}}

TypeIdle ==
    /\ t_name = <<>> /\ t_pc = "off" /\ t_res = "None" /\ t_variant = <<>>
    /\ t_varres = "None"

TypeInit ==
    /\ t_name \in FileNames /\ t_pc = "init" /\ t_res = "None" /\ t_variant = <<>>
    /\ t_varres = "None"

\* detect_type(path)
DetectType ==
    /\ t_pc = "init"
    /\ t_res' = detect_type(t_name)
    /\ t_pc' = "base"
    /\ UNCHANGED <<notType, t_name, t_variant, t_varres>>

\* detect_type of the path with its extension written in another case
DetectVariant ==
    /\ t_pc = "base"
    /\ \E sfx \in CaseVariants(Lower(Suffix(t_name))) :
        LET stem == SubSeq(t_name, 1, Len(t_name) - Len(Suffix(t_name)))
        IN  /\ t_variant' = stem \o sfx
            /\ t_varres' = detect_type(stem \o sfx)
    /\ t_pc' = "done"
    /\ UNCHANGED <<notType, t_name, t_res>>

-----------------------------------------------------------------------------
(* SpecGather: gather_files applied to a path of a directory tree.  The    *)
(* directory 0 is the root of the tree; the entries 1..MaxNodes are files  *)
(* or directories, each lying in a directory of a smaller number.          *)
(* Path.iterdir's order is not specified; the entries are listed here in   *)
(* ascending number.                                                       *)

Entries == 1..MaxNodes

GatherNames == {<<"f", ".", "p", "d", "f">>, <<"f", ".", "P", "N", "G">>,
                <<"f", ".", "t", "x", "t">>}

\* Path.is_file and Path.is_dir of an entry of the tree
is_file(p) == p \in Entries /\ ~f_isdir[p]

is_dir(p) == p = 0 \/ (p \in Entries /\ f_isdir[p])

\* Path.iterdir
iterdir(d) == SortAsc({p \in Entries : f_parent[p] = d})

\* a mutant of Descend: sub-directories are entered without the option
DescendAlways(recursive, isdir) == isdir

\* app.py line 246: elif recursive and p.is_dir()
Descend(recursive, isdir) == recursive /\ isdir

RECURSIVE gather_files(_, _)

RECURSIVE GatherLoop(_, _)

\* app.py lines 243-247: the loop over the entries of a directory
GatherLoop(ps, recursive) ==
    IF ps = <<>> THEN <<>>
    ELSE LET p == Head(ps)
             found == IF is_file(p)
                      THEN IF detect_type(f_name[p]) # "None" THEN <<p>> ELSE <<>>
                      ELSE IF Descend(recursive, is_dir(p))
                           THEN gather_files(p, recursive)
                           ELSE <<>>
         IN  found \o GatherLoop(Tail(ps), recursive)

\* app.py lines 238-248
gather_files(path, recursive) ==
    IF is_file(path) THEN <<path>> ELSE GatherLoop(iterdir(path), recursive)

GatherIdle ==
    /\ f_isdir = <<>> /\ f_name = <<>> /\ f_parent = <<>> /\ f_path = 0
    /\ f_pc = "off" /\ f_flat = <<>> /\ f_deep = <<>>

\* every tree: an entry lies in the root or in a directory before it, and two
\* entries of one directory differ in name
GatherInit ==
    /\ f_isdir \in [Entries -> BOOLEAN]
    /\ f_name \in [Entries -> GatherNames]
    /\ f_parent \in [Entries -> 0..MaxNodes]
    /\ \A p \in Entries :
        /\ f_parent[p] < p
        /\ is_dir(f_parent[p])
    /\ \A p, r \in Entries :
        (p # r /\ f_parent[p] = f_parent[r]) => f_name[p] # f_name[r]
    /\ f_path \in 0..MaxNodes
    /\ f_pc = "init" /\ f_flat = <<>> /\ f_deep = <<>>

\* gather_files(path, recursive=False)
GatherFlat ==
    /\ f_pc = "init"
    /\ f_flat' = gather_files(f_path, FALSE)
    /\ f_pc' = "flat"
    /\ UNCHANGED <<notGather, f_isdir, f_name, f_parent, f_path, f_deep>>

\* gather_files(path, recursive=True) on the same tree
GatherDeep ==
    /\ f_pc = "flat"
    /\ f_deep' = gather_files(f_path, TRUE)
    /\ f_pc' = "deep"
    /\ UNCHANGED <<notGather, f_isdir, f_name, f_parent, f_path, f_flat>>

-----------------------------------------------------------------------------
(* Orchestration: app.process_single_file                                  *)

\* pathlib's Path.stem: the name without its suffix
Stem(name) == SubSeq(name, 1, Len(name) - Len(Suffix(name)))

\* a mutant of OutSubdir: the output directory itself
OutSubdirFlat(name) == <<"outdir">>

\* app.py line 228: out_subdir = outdir / file_path.stem
OutSubdir(name) == <<"outdir", Stem(name)>>

\* app.py lines 214-219
DISPATCH ==
    [t \in {"pdf", "docx", "excel", "image"} |->
        CASE t = "pdf" -> "run_pdf"
          [] t = "docx" -> "run_docx"
          [] t = "excel" -> "run_excel"
          [] t = "image" -> "run_image"]

\* app.py line 231: DISPATCH.get(ftype)
Dispatch(ftype) == IF ftype \in DOMAIN DISPATCH THEN DISPATCH[ftype] ELSE "None"

\* app.process_single_file lines 224-235: RuntimeError for an unsupported
\* extension; otherwise the sub-directory is created and the runner of the file's
\* type is called with the query and the options as given
ProcessSingleFile ==
    /\ app_pc = "process"
    /\ LET ftype == detect_type(fname)
       IN  IF ftype = "None"
           THEN /\ app_pc' = "error"
                /\ UNCHANGED <<pc, runner, out_subdir, dirs>>
           ELSE /\ out_subdir' = OutSubdir(fname)
                /\ dirs' = dirs \cup {OutSubdir(fname)}
                /\ runner' = Dispatch(ftype)
                /\ IF Dispatch(ftype) = "None"
                   THEN app_pc' = "error" /\ UNCHANGED pc
                   ELSE app_pc' = "runner" /\ pc' = "start"
    /\ UNCHANGED <<notRun, fname, tmpdir, temp_pdf,
                   exists, page_dims, raster, handles,
                   entry, arg_query, kind, doc, force_render, query, pnum, matches,
                   chosen_images, ordered, generated_images, files, combined_file,
                   combined_made, ret, result, failed, log>>

-----------------------------------------------------------------------------
(* SpecMain: app.main's loop over the gathered files.  What processing a   *)
(* file does is left to the environment: process_single_file returns a     *)
(* result, or an exception leaves it, whose str() may be the empty string  *)
(* (an exception raised without arguments).                                *)

\* str(e) of the exceptions a runner can raise
Messages == {"", "failed"}

\* the lists gather_files can return: supported files of a directory, or the one
\* path that was given, whatever its extension
FileLists ==
    SeqsUpTo({<<"f", ".", "p", "d", "f">>, <<"f", ".", "p", "n", "g">>}, MaxFiles)
        \cup {<<(<<"f", ".", "t", "x", "t">>)>>}

\* dict.get(key): None when the key is absent
Get(item, key) == IF key \in DOMAIN item THEN item[key] ELSE "None"

\* the truth value of a string or None
TruthyStr(v) == v # "None" /\ v # ""

\* app.py lines 360-364: an item whose "error" is absent or empty is read as a
\* success, and item["result"] raises KeyError when the item has no result
SummaryRaises(overall) ==
    \E i \in 1..Len(overall) :
        ~TruthyStr(Get(overall[i], "error")) /\ "result" \notin DOMAIN overall[i]

MainIdle ==
    /\ n_files = <<>> /\ n_i = 0 /\ n_overall = <<>> /\ n_pc = "off" /\ n_status = -1

MainInit ==
    /\ n_files \in FileLists /\ n_i = 0 /\ n_overall = <<>> /\ n_pc = "gather"
    /\ n_status = -1

\* app.py lines 315-320: sys.exit(2) when no file was gathered
MainGather ==
    /\ n_pc = "gather"
    /\ IF n_files = <<>>
       THEN n_pc' = "exited" /\ n_status' = 2 /\ UNCHANGED n_i
       ELSE n_pc' = "loop" /\ n_i' = 1 /\ UNCHANGED n_status
    /\ UNCHANGED <<notMain, n_files, n_overall>>

\* app.py lines 321-356: one pass of the loop; process_single_file raises
\* RuntimeError("Unsupported extension: ...") for an unsupported file, and
\* otherwise returns or raises as the runner does; every exception is caught
MainProcessFile ==
    /\ n_pc = "loop"
    /\ LET f == n_files[n_i]
       IN  IF detect_type(f) = "None"
           THEN n_overall' = Append(n_overall, [file |-> f, error |-> "unsupported"])
           ELSE \/ n_overall' = Append(n_overall,
                                       [file |-> f, outdir |-> OutSubdir(f),
                                        result |-> [pages |-> <<>>, combined |-> "None"]])
                \/ \E msg \in Messages :
                      n_overall' = Append(n_overall, [file |-> f, error |-> msg])
    /\ IF n_i = Len(n_files)
       THEN n_pc' = "summary" /\ UNCHANGED n_i
       ELSE n_pc' = "loop" /\ n_i' = n_i + 1
    /\ UNCHANGED <<notMain, n_files, n_status>>

\* app.py lines 358-375: the summary is printed item by item and main returns 0;
\* a KeyError of the summary leaves main, and the interpreter exits with status 1
MainSummary ==
    /\ n_pc = "summary"
    /\ IF SummaryRaises(n_overall)
       THEN n_pc' = "raised" /\ n_status' = 1
       ELSE n_pc' = "returned" /\ n_status' = 0
    /\ UNCHANGED <<notMain, n_files, n_i, n_overall>>

-----------------------------------------------------------------------------
(* SpecPrefer: annotate_pdf_and_build_combined as a function of its        *)
(* arguments and of what the environment does at each step, called twice   *)
(* on the same document with prefer_fallback set and not set.              *)

\* what can happen to a unit that is rendered
UnitOutcomes == {"ok", "native_fails", "render_raises", "fallback_raises"}

PreferPages == {<<>>, <<(<<"a">>)>>, <<(<<"a">>), (<<"b">>)>>}

PreferQueries == {<<>>, <<"a">>}

\* a mutant of AttemptNative: the native draw is left out when the fallback is
\* preferred
AttemptNativeUnlessPreferred(prefer_fallback) == ~prefer_fallback

\* pdf_handler lines 146-153: draw_with_drawrect is called for every rendered unit;
\* prefer_fallback (line 110) is not read
AttemptNative(prefer_fallback) == TRUE

RECURSIVE PageLoop(_, _, _, _, _, _, _)

\* pdf_handler lines 126-155: the page loop from unit p on; st holds the log, the
\* chosen_images dict and whether an exception left the loop
PageLoop(d, ms, force, prefer_fallback, env, p, st) ==
    IF p = Len(d) THEN st
    ELSE IF ShouldSkip(MatchesByPage(ms, p), force)
    THEN PageLoop(d, ms, force, prefer_fallback, env, NextUnit(p), st)
    ELSE IF env.units[p + 1] = "render_raises"
    THEN [st EXCEPT !.raised = TRUE]
    ELSE IF env.units[p + 1] = "fallback_raises"
    THEN [st EXCEPT !.log = Append(st.log, Event("render", p, 0)), !.raised = TRUE]
    ELSE LET n == Len(MatchesByPage(ms, p))
             drawn == st.log \o <<Event("render", p, 0), Event("fallback", p, n),
                                  Event("record", p, 0)>>
             native == IF AttemptNative(prefer_fallback)
                       THEN <<Event("native", p,
                                    IF env.units[p + 1] = "ok" THEN 1 ELSE 0)>>
                       ELSE <<>>
         IN  PageLoop(d, ms, force, prefer_fallback, env, NextUnit(p),
                      [log |-> drawn \o native,
                       chosen |-> Put(st.chosen, p, FallbackPath(p)),
                       raised |-> FALSE])

\* pdf_handler lines 105-164: the operations performed and what is returned
annotate_pdf_and_build_combined(d, q, force, prefer_fallback, env) ==
    LET ms == find_matches_in_pdf(d, q)
        start == [log |-> <<Event("locate", -1, Len(PdfQ(q)))>>, chosen |-> <<>>,
                  raised |-> FALSE]
        st == PageLoop(d, ms, force, prefer_fallback, env, 0, start)
        pages == Ordered(st.chosen)
    IN  IF st.raised
        THEN [log |-> st.log, raised |-> TRUE, pages |-> <<>>, combined |-> "None"]
        ELSE IF pages = <<>>
        THEN [log |-> st.log, raised |-> FALSE, pages |-> pages,
              combined |-> CombinedPath]
        ELSE IF env.agg
        THEN [log |-> Append(st.log, Event("aggregate", -1, Len(pages))),
              raised |-> FALSE, pages |-> pages, combined |-> CombinedPath]
        ELSE [log |-> Append(st.log, Event("aggregate_failed", -1, Len(pages))),
              raised |-> TRUE, pages |-> <<>>, combined |-> "None"]

NoRun == [log |-> <<>>, raised |-> FALSE, pages |-> <<>>, combined |-> "None"]

PreferIdle ==
    /\ h_doc = <<>> /\ h_query = <<>> /\ h_force = FALSE
    /\ h_env = [units |-> <<>>, agg |-> TRUE]
    /\ h_pc = "off" /\ h_run1 = NoRun /\ h_run2 = NoRun

PreferInit ==
    /\ h_doc \in SeqsUpTo(PreferPages, MaxPreferUnits)
    /\ h_query \in PreferQueries
    /\ h_force \in BOOLEAN
    /\ h_env \in [units : [1..Len(h_doc) -> UnitOutcomes], agg : BOOLEAN]
    /\ h_pc = "init" /\ h_run1 = NoRun /\ h_run2 = NoRun

\* the call with prefer_fallback=True, as app.run_pdf makes it (app.py line 165)
RunPreferring ==
    /\ h_pc = "init"
    /\ h_run1' = annotate_pdf_and_build_combined(h_doc, h_query, h_force, TRUE, h_env)
    /\ h_pc' = "one"
    /\ UNCHANGED <<notPrefer, h_doc, h_query, h_force, h_env, h_run2>>

\* the same call with prefer_fallback=False
RunNotPreferring ==
    /\ h_pc = "one"
    /\ h_run2' = annotate_pdf_and_build_combined(h_doc, h_query, h_force, FALSE, h_env)
    /\ h_pc' = "both"
    /\ UNCHANGED <<notPrefer, h_doc, h_query, h_force, h_env, h_run1>>

-----------------------------------------------------------------------------
(* Spec: one run on one file                                               *)

WordHit == <<"A", "a">>

WordMiss == <<"micro">>

RunQueries == {<<>>, <<" ">>, <<"a">>}

PageContents == {<<>>, <<WordMiss>>, <<WordHit, WordMiss>>}

SheetContents == {<<(<<(<<>>)>>)>>, <<(<<WordMiss>>)>>, <<(<<WordHit, WordMiss>>)>>}

Docs(k) ==
    CASE k = "pdf" -> SeqsUpTo(PageContents, MaxUnits)
      [] k = "excel" -> SeqsUpTo(SheetContents, MaxUnits) \ {<<>>}
      [] k = "image" -> [1..1 -> PageContents]
      [] k = "docx" -> [1..1 -> PageContents]
      [] k = "None" -> {<<>>}

\* one file name of each supported type, and one of an unsupported extension
RunNames == {<<"f", ".", "p", "d", "f">>, <<"f", ".", "D", "O", "C", "X">>,
             <<"f", ".", "x", "l", "s", "x">>, <<"f", ".", "p", "n", "g">>,
             <<"f", ".", "t", "x", "t">>}

RunIdle ==
    /\ entry = "main" /\ arg_query = <<>> /\ kind = "pdf" /\ doc = <<>>
    /\ force_render = FALSE /\ app_pc = "off" /\ query = <<>> /\ pc = "off"
    /\ pnum = 0 /\ matches = <<>> /\ chosen_images = <<>> /\ ordered = <<>>
    /\ generated_images = <<>> /\ files = {} /\ combined_file = <<>>
    /\ combined_made = FALSE
    /\ ret = [pages |-> <<>>, combined |-> "None"]
    /\ result = [pages |-> <<>>, combined |-> "None"]
    /\ failed = {} /\ log = <<>>
    /\ exists = TRUE /\ page_dims = <<>> /\ raster = <<>> /\ handles = {}
    /\ fname = <<>> /\ runner = "None" /\ out_subdir = <<>> /\ dirs = {}
    /\ tmpdir = FALSE /\ temp_pdf = FALSE

RunInit ==
    /\ entry \in {"main", "single"}
    /\ arg_query \in RunQueries
    /\ fname \in RunNames
    /\ kind = detect_type(fname)
    /\ doc \in Docs(kind)
    /\ force_render \in BOOLEAN
    /\ app_pc = (IF entry = "main" THEN "main" ELSE "process")
    /\ query = (IF entry = "main" THEN <<>> ELSE arg_query)
    /\ pc = "idle"
    /\ pnum = 0 /\ matches = <<>> /\ chosen_images = <<>> /\ ordered = <<>>
    /\ generated_images = <<>> /\ files = {} /\ combined_file = <<>>
    /\ combined_made = FALSE
    /\ ret = [pages |-> <<>>, combined |-> "None"]
    /\ result = [pages |-> <<>>, combined |-> "None"]
    /\ failed = {} /\ log = <<>>
    /\ exists \in BOOLEAN /\ page_dims = <<>> /\ raster = <<>> /\ handles = {}
    /\ runner = "None" /\ out_subdir = <<>> /\ dirs = {}
    /\ tmpdir = FALSE /\ temp_pdf = FALSE

\* the harnesses of the pure functions are off
HarnessIdle == StrokeIdle /\ AggIdle /\ GridIdle /\ TypeIdle /\ GatherIdle /\ MainIdle /\ PreferIdle

Init == RunInit /\ MatchIdle /\ MapIdle /\ HarnessIdle

Next ==
    \/ MainArgs
    \/ \E inp \in RunQueries : InteractivePrompt(inp)
    \/ ProcessSingleFile
    \/ PdfStart \/ PdfNextPage \/ PdfRenderPage \/ PdfDrawFallback \/ PdfRecord
    \/ PdfDrawRect \/ PdfAggregate \/ PdfReturn \/ RunPdf
    \/ DocxStart \/ DocxConvert \/ DocxUnwind \/ DocxReturn \/ RunDocx
    \/ ExcelStart \/ ExcelSheet \/ ExcelRender \/ ExcelDraw \/ ExcelSave
    \/ ExcelAggregate \/ ExcelReturn \/ RunExcel
    \/ ImageStart \/ ImageDraw \/ ImageAggregate \/ ImageReturn \/ RunImage
    \/ RunnerRaises

Spec == Init /\ [][Next]_vars

InitMatch == RunIdle /\ MatchInit /\ MapIdle /\ HarnessIdle

NextMatch == LocateBase \/ LocateUpper \/ LocateLower \/ LocatePadded

SpecMatch == InitMatch /\ [][NextMatch]_vars

InitMap == RunIdle /\ MatchIdle /\ MapInit /\ HarnessIdle

NextMap == DrawFirst \/ DrawSecond

SpecMap == InitMap /\ [][NextMap]_vars

InitStroke ==
    RunIdle /\ MatchIdle /\ MapIdle /\ StrokeInit /\ AggIdle /\ GridIdle /\ TypeIdle
    /\ GatherIdle /\ MainIdle /\ PreferIdle

NextStroke == DrawOutline \/ StrokeSave

SpecStroke == InitStroke /\ [][NextStroke]_vars

InitAgg ==
    RunIdle /\ MatchIdle /\ MapIdle /\ StrokeIdle /\ AggInit /\ GridIdle /\ TypeIdle
    /\ GatherIdle /\ MainIdle /\ PreferIdle

NextAgg == AggOpen \/ AggSave

SpecAgg == InitAgg /\ [][NextAgg]_vars

InitGrid ==
    RunIdle /\ MatchIdle /\ MapIdle /\ StrokeIdle /\ AggIdle /\ GridInit /\ TypeIdle
    /\ GatherIdle /\ MainIdle /\ PreferIdle

NextGrid == GridStart \/ GridCell \/ GridRowEnd \/ GridDrawMatches

SpecGrid == InitGrid /\ [][NextGrid]_vars

InitType ==
    RunIdle /\ MatchIdle /\ MapIdle /\ StrokeIdle /\ AggIdle /\ GridIdle /\ TypeInit
    /\ GatherIdle /\ MainIdle /\ PreferIdle

NextType == DetectType \/ DetectVariant

SpecType == InitType /\ [][NextType]_vars

InitGather ==
    RunIdle /\ MatchIdle /\ MapIdle /\ StrokeIdle /\ AggIdle /\ GridIdle /\ TypeIdle
    /\ GatherInit /\ MainIdle /\ PreferIdle

NextGather == GatherFlat \/ GatherDeep

SpecGather == InitGather /\ [][NextGather]_vars

InitMain ==
    RunIdle /\ MatchIdle /\ MapIdle /\ StrokeIdle /\ AggIdle /\ GridIdle /\ TypeIdle
    /\ GatherIdle /\ MainInit /\ PreferIdle

NextMain == MainGather \/ MainProcessFile \/ MainSummary

SpecMain == InitMain /\ [][NextMain]_vars

InitPrefer ==
    RunIdle /\ MatchIdle /\ MapIdle /\ StrokeIdle /\ AggIdle /\ GridIdle /\ TypeIdle
    /\ GatherIdle /\ MainIdle /\ PreferInit

NextPrefer == RunPreferring \/ RunNotPreferring

SpecPrefer == InitPrefer /\ [][NextPrefer]_vars

-----------------------------------------------------------------------------
(* Properties of the page-oriented pipeline (Spec)                         *)

PdfUnits == 0..(Len(doc) - 1)

\* the pdf pipeline is past its locator call
PdfLocated ==
    kind = "pdf" /\ pc \in {"loop", "render", "fallback", "record", "native",
                            "aggregate", "return", "returned", "raised"}

\* the units annotate_pdf_and_build_combined is to render
PdfToRender == {u \in PdfUnits : MatchesByPage(matches, u) # <<>> \/ force_render}

\* the query is not empty after normalisation
QueryGiven == Strip(Lower(query)) # <<>>

PathsOf(units) == LET keys == SortAsc(units)
                  IN  [i \in 1..Len(keys) |-> FallbackPath(keys[i])]

Occurrences(sq, x) == Cardinality({i \in 1..Len(sq) : sq[i] = x})

\* C1: when rasterization or box drawing raises for a unit of a pdf, the run does
\* not abort: it returns the raster paths of every other unit to render, and the
\* combined artifact holds exactly those pages in ascending index order.
C1_PartialFailureContained ==
    (kind = "pdf" /\ QueryGiven /\ failed # {}) =>
        /\ pc # "raised"
        /\ pc = "returned" =>
              /\ ret.pages = PathsOf(PdfToRender \ failed)
              /\ combined_file = ret.pages

\* C2: the combined-artifact value a pdf or excel run returns is none if and only
\* if no unit produced a raster, and when it is not none the combined file was
\* created in that run.
C2_CombinedNoneIffNoRaster ==
    /\ (pc = "returned" /\ kind \in {"pdf", "excel"} /\ QueryGiven) =>
          /\ (ret.combined = "None") <=> (ret.pages = <<>>)
          /\ (ret.combined # "None") => combined_made
    /\ (app_pc = "done" /\ kind \in {"pdf", "excel"} /\ QueryGiven) =>
          /\ (result.combined = "None") <=> (result.pages = <<>>)
          /\ (result.combined # "None") => combined_made

\* C3: the raster paths annotate_pdf_and_build_combined returns, and the pages it
\* hands to images_to_pdf, are strictly ascending in unit index and hold each
\* rendered unit exactly once.
C3_OrderedAscendingOnce ==
    (kind = "pdf" /\ pc \in {"return", "returned"}) =>
        /\ \A i, j \in 1..Len(ordered) : i < j => ordered[i].unit < ordered[j].unit
        /\ \A u \in PdfUnits :
              Occurrences(ordered, FallbackPath(u)) =
                  (IF FallbackPath(u) \in files THEN 1 ELSE 0)
        /\ \A i \in 1..Len(ordered) : ordered[i] \in files
        /\ combined_made => combined_file = ordered
        /\ pc = "returned" => ret.pages = ordered

\* C3's case: a run returned at least two rasters, with a skipped unit between
C3_Witness ==
    /\ kind = "pdf" /\ pc = "returned" /\ combined_made
    /\ ret.pages = <<FallbackPath(0), FallbackPath(2)>>

RenderEvents(u) == {i \in 1..Len(log) : log[i].op = "render" /\ log[i].unit = u}

FallbackEvents(u) == {i \in 1..Len(log) : log[i].op = "fallback" /\ log[i].unit = u}

\* C4: in the pdf pipeline a unit with zero matches is, without force_render,
\* never rasterized and contributes no raster path; with force_render it
\* contributes exactly one raster path with zero boxes drawn.  The number of
\* returned paths is the number of units with a match (force_render off) or the
\* number of units (force_render on).
C4_NoMatchSkip ==
    PdfLocated =>
        /\ \A u \in PdfUnits : MatchesByPage(matches, u) = <<>> =>
              /\ ~force_render =>
                    /\ RenderEvents(u) = {}
                    /\ FallbackPath(u) \notin files
                    /\ u \notin DOMAIN chosen_images
                    /\ pc = "returned" => Occurrences(ret.pages, FallbackPath(u)) = 0
              /\ (force_render /\ pc = "returned") =>
                    /\ Occurrences(ret.pages, FallbackPath(u)) = 1
                    /\ Cardinality(FallbackEvents(u)) = 1
                    /\ \A i \in FallbackEvents(u) : log[i].n = 0
        /\ pc = "returned" =>
              Len(ret.pages) =
                  (IF force_render THEN Len(doc)
                   ELSE Cardinality({u \in PdfUnits : MatchesByPage(matches, u) # <<>>}))

\* C4's case: a forced run returned, with a unit without matches and one with
C4_Witness ==
    /\ PdfLocated /\ pc = "returned" /\ force_render
    /\ \E u \in PdfUnits : MatchesByPage(matches, u) = <<>>
    /\ \E u \in PdfUnits : MatchesByPage(matches, u) # <<>>

\* C5: in the excel and image pipelines a unit with zero matches, without a
\* force-render request, produces no raster path and no page of the combined
\* artifact.
C5_GridAndImageNoMatchSkip ==
    (kind \in {"excel", "image"} /\ ~force_render /\ QueryGiven /\ pc = "returned") =>
        \A u \in 0..(Len(doc) - 1) :
            LET none == IF kind = "excel"
                        THEN find_matches_in_sheet(doc[u + 1], query) = <<>>
                        ELSE extract_boxes(doc[u + 1], query) = <<>>
                path == IF kind = "excel" THEN SheetPath(u) ELSE ImagePath
            IN  none => /\ Occurrences(ret.pages, path) = 0
                        /\ Occurrences(combined_file, path) = 0

\* C8: no locator is ever run with an effective query of "": every entry point
\* rejects a query that is empty after normalisation before any locator call.
C8_NoEmptyQueryReachesLocator ==
    \A i \in 1..Len(log) : log[i].op = "locate" => log[i].n > 0

-----------------------------------------------------------------------------
(* Properties of the match locators (SpecMatch)                            *)

\* C6: a locator returns the same ordered match list for Q, Q.upper() and
\* Q.lower(), with one record per word or cell whose lower-cased text contains
\* the lower-cased query.
C6_CaseInsensitiveLaw ==
    /\ (m_pc = "done" /\ m_varkind \in {"upper", "lower"}) => m_varres = m_base
    /\ (m_pc # "init" /\ m_loc = "pdf") =>
          /\ \A i \in 1..Len(m_base) : \A j \in 1..Len(m_base) :
                i < j => m_base[i].word < m_base[j].word
          /\ {m_base[i].word : i \in 1..Len(m_base)} =
                {w \in 1..Len(m_content) :
                    Contains(Strip(Lower(m_query)), Lower(Strip(m_content[w])))}

\* C7: every locator strips the query: a (non-empty) Q surrounded by whitespace
\* gives the matches of Q.
C7_PaddedQuerySameMatches ==
    (m_pc = "done" /\ m_varkind = "padded" /\ Strip(m_query) # <<>>)
    => m_varres = m_base

\* the law of C6 for queries of ASCII letters and whitespace
AsciiCaseLaw ==
    (m_pc = "done" /\ m_varkind \in {"upper", "lower"}
       /\ \A i \in 1..Len(m_query) : m_query[i] \in {"a", "A", " "})
    => m_varres = m_base

\* the law of C7 for the pdf and sheet locators
PaddingLawPdfSheet ==
    (m_pc = "done" /\ m_varkind = "padded" /\ m_loc \in {"pdf", "sheet"})
    => m_varres = m_base

-----------------------------------------------------------------------------
(* Properties of the mapping (SpecMap)                                     *)

\* p is num / den truncated toward zero (den > 0)
IsTrunc(p, num, den) ==
    /\ num >= 0 => (p >= 0 /\ p * den <= num /\ num < (p + 1) * den)
    /\ num < 0 => (p <= 0 /\ p * den >= num /\ num > (p - 1) * den)

IsMapped(out, r, page_pts, img) ==
    /\ IsTrunc(out[1], r[1] * img[1], page_pts[1])
    /\ IsTrunc(out[2], r[2] * img[2], page_pts[2])
    /\ IsTrunc(out[3], r[3] * img[1], page_pts[1])
    /\ IsTrunc(out[4], r[4] * img[2], page_pts[2])

PxWidth(out) == out[3] - out[1]

PxHeight(out) == out[4] - out[2]

Max(a, b) == IF a >= b THEN a ELSE b

\* the native rect lies on the page
RectOnPage ==
    /\ 0 <= g_rect[1] /\ g_rect[3] <= g_page_pts[1]
    /\ 0 <= g_rect[2] /\ g_rect[4] <= g_page_pts[2]

\* the two rasters' dimensions are in one ratio R2/R1
OneRatio == g_img2[1] * g_img1[2] = g_img2[2] * g_img1[1]

\* C10 as stated: for two rasters whose dimensions are in the ratio R2/R1, the
\* pixel widths and heights of a rect on the page satisfy |w2 - w1*R2/R1| <= 1
\* and |h2 - h1*R2/R1| <= 1 (multiplied through by the first raster's dimension).
C10_ScaleWithinOnePixel ==
    (g_pc = "two" /\ OneRatio /\ RectOnPage) =>
        /\ Abs(PxWidth(g_out2) * g_img1[1] - PxWidth(g_out1) * g_img2[1]) <= g_img1[1]
        /\ Abs(PxHeight(g_out2) * g_img1[2] - PxHeight(g_out1) * g_img2[2]) <= g_img1[2]

\* |p2 - p1 * R2/R1| <= 1 + R2/R1 for an extent lo..hi that does not straddle 0,
\* and <= 2 * max(1, R2/R1) for any extent (multiplied through by R1 = d1)
ScaleBound(p1, p2, d1, d2, lo, hi) ==
    /\ (lo >= 0 \/ hi <= 0) => Abs(p2 * d1 - p1 * d2) <= d1 + d2
    /\ Abs(p2 * d1 - p1 * d2) <= 2 * Max(d1, d2)

\* C10 amended: the pixel widths (heights) of one native rect on two rasters
\* differ from the ratio R2/R1 of the rasters' widths (heights) by at most
\* 1 + R2/R1 pixels when the rect's coordinates are non-negative, and by at most
\* 2 * max(1, R2/R1) pixels for any rect.
C10_ScaleWithinOnePlusRatio ==
    g_pc = "two" =>
        /\ ScaleBound(PxWidth(g_out1), PxWidth(g_out2), g_img1[1], g_img2[1],
                      g_rect[1], g_rect[3])
        /\ ScaleBound(PxHeight(g_out1), PxHeight(g_out2), g_img1[2], g_img2[2],
                      g_rect[2], g_rect[4])

\* C10's case: a rect on the page, two rasters in one ratio, and pixel widths
\* that differ from the ratio by more than one pixel
C10_Witness ==
    /\ g_pc = "two" /\ OneRatio /\ RectOnPage
    /\ Abs(PxWidth(g_out2) * g_img1[1] - PxWidth(g_out1) * g_img2[1]) > g_img1[1]

-----------------------------------------------------------------------------
(* Degenerate page dimensions (Spec)                                       *)

\* a native width or height that is not positive
Degenerate(pts) == pts[1] <= 0 \/ pts[2] <= 0

\* the units whose dimensions draw_fallback read as degenerate
DegenerateUnits == {u \in DOMAIN page_dims : Degenerate(page_dims[u])}

\* C11: a pdf unit whose native width or height is <= 0 (zero or negative) fails
\* in its mapping step only: the unit gets no raster path and no page, the run is
\* not aborted at that unit, and the run returns the rasters of the other units.
C11_DegenerateUnitSkipped ==
    (kind = "pdf" /\ QueryGiven) =>
        /\ \A u \in DegenerateUnits :
              /\ FallbackPath(u) \notin files
              /\ u \notin DOMAIN chosen_images
              /\ ~(pc = "raised" /\ pnum = u)
        /\ pc = "returned" => ret.pages = PathsOf(PdfToRender \ DegenerateUnits)

-----------------------------------------------------------------------------
(* Properties of the box renderers (SpecStroke)                            *)

\* C12: a box renderer called with a pixel rect and an integer stroke width W
\* draws exactly the outlines {rect inflated by k pixels on every side :
\* 0 <= k < W}; for W >= 1 the outermost outline lies W - 1 pixels beyond the rect
\* on each side; for W <= 0 nothing is drawn (and the renderer goes on to save).
C12_StrokeInflation ==
    k_pc = "saved" =>
        /\ {k_outlines[i] : i \in 1..Len(k_outlines)} =
              {<<k_rect[1] - k, k_rect[2] - k, k_rect[3] + k, k_rect[4] + k>> :
                  k \in 0..(k_width - 1)}
        /\ Len(k_outlines) = Max(k_width, 0)
        /\ k_width >= 1 =>
              /\ k_outlines[Len(k_outlines)] =
                    <<k_rect[1] - (k_width - 1), k_rect[2] - (k_width - 1),
                      k_rect[3] + (k_width - 1), k_rect[4] + (k_width - 1)>>
              /\ \A i \in 1..Len(k_outlines) :
                    /\ k_outlines[i][1] >= k_rect[1] - (k_width - 1)
                    /\ k_outlines[i][2] >= k_rect[2] - (k_width - 1)
                    /\ k_outlines[i][3] <= k_rect[3] + (k_width - 1)
                    /\ k_outlines[i][4] <= k_rect[4] + (k_width - 1)
        /\ k_width <= 0 => k_outlines = <<>>

\* C12's case: a renderer has drawn the outlines of a rect with stroke width 3
C12_Witness ==
    /\ k_pc = "saved" /\ k_width = 3 /\ k_rect = <<1, 1, 2, 2>>
    /\ k_outlines = <<(<<1, 1, 2, 2>>), (<<0, 0, 3, 3>>), (<<-1, -1, 4, 4>>)>>

-----------------------------------------------------------------------------
(* The native drawing strategy (Spec)                                      *)

\* the fallback rasters on disk, with their content
FallbackRasters ==
    [f \in {x \in DOMAIN raster : x.file = "annot_fallback"} |-> raster[f]]

\* the canonical output of every rendered unit is the fallback raster, as
\* draw_fallback wrote it
CanonicalIsFallback ==
    kind \in PdfKinds =>
        /\ \A u \in DOMAIN chosen_images :
              /\ chosen_images[u] = FallbackPath(u)
              /\ FallbackPath(u) \in DOMAIN raster
              /\ raster[FallbackPath(u)] =
                    [by |-> "draw_fallback", boxes |-> Len(MatchesByPage(matches, u))]
        /\ pc \in {"returned", "normalised"} =>
              /\ ret.pages = PathsOf(DOMAIN chosen_images)
              /\ DOMAIN chosen_images = PdfToRender
              /\ combined_made => combined_file = ret.pages

\* draw_with_drawrect, whatever its outcome, leaves the recorded paths and the
\* fallback rasters as they are, and the page loop goes on
NativeStepIsolated ==
    (kind \in PdfKinds /\ pc = "native") =>
        /\ pc' = "loop"
        /\ chosen_images' = chosen_images
        /\ FallbackRasters' = FallbackRasters
        /\ failed' = failed

\* C13: whether draw_with_drawrect succeeds or fails inside (it catches what it
\* raises), the unit's canonical output is the fallback raster: the recorded
\* path, the fallback raster's content and the pages of the combined artifact do
\* not depend on the native outcome, and the native step never aborts the run.
C13_NativeIsolation == []CanonicalIsFallback /\ [][NativeStepIsolated]_vars

\* C13's case: a run returned two pages, the native drawing having failed for the
\* first and succeeded for the second
C13_Witness ==
    /\ kind = "pdf" /\ pc = "returned" /\ Len(ret.pages) = 2
    /\ \E i \in 1..Len(log) : log[i] = Event("native", 0, 0)
    /\ \E i \in 1..Len(log) : log[i] = Event("native", 1, 1)
    /\ combined_made /\ combined_file = <<FallbackPath(0), FallbackPath(1)>>

-----------------------------------------------------------------------------
(* Properties of the aggregator (SpecAgg)                                  *)

\* C14: images_to_pdf called with an empty list returns None without raising and
\* without creating a file.
C14_EmptyAggregationReturnsNone ==
    (a_list = <<>> /\ a_pc # "off") =>
        /\ a_pc # "raised"
        /\ ~a_made
        /\ a_pc = "done" => a_out = "None"

\* in the pipelines images_to_pdf is called behind `if ordered:` and
\* `if generated_images:`, so an empty list never reaches it there
GuardedAggregation ==
    (kind \in PdfKinds \cup {"excel"} /\ pc \in {"return", "returned", "normalised"}
       /\ ret.pages = <<>> /\ ordered = <<>> /\ generated_images = <<>>)
    => ~combined_made

-----------------------------------------------------------------------------
(* Failures of the aggregation and of the grid pipeline (Spec)             *)

\* images_to_pdf failed in this run (a persisted raster could not be reopened)
AggregationFailed == \E i \in 1..Len(log) : log[i].op = "aggregate_failed"

\* the raster paths the pipeline had collected when it called images_to_pdf
Collected ==
    CASE kind \in PdfKinds -> ordered
      [] kind = "excel" -> generated_images
      [] kind = "image" -> <<ImagePath>>

\* C15: when images_to_pdf fails, in every pipeline the caller still receives the
\* raster paths written in the run, the raster files stay on disk, and no
\* combined artifact is reported.
C15_AggregationFailureContained ==
    (AggregationFailed /\ QueryGiven) =>
        /\ pc # "raised"
        /\ \A i \in 1..Len(Collected) : Collected[i] \in files
        /\ pc \in {"returned", "normalised"} =>
              /\ ret.pages = Collected
              /\ ret.combined = "None"
        /\ app_pc = "done" => result.combined = "None"

SheetPathsOf(units) == LET keys == SortAsc(units)
                       IN  [i \in 1..Len(keys) |-> SheetPath(keys[i])]

\* C16: when render_sheet_to_image or draw_matches_on_image raises for a sheet,
\* the sheet is left out of the returned image list and the run goes on with the
\* other sheets, which are returned and combined.
C16_GridRenderFailureContained ==
    (kind = "excel" /\ QueryGiven /\ failed # {}) =>
        /\ pc # "raised"
        /\ pc = "returned" =>
              /\ ret.pages = SheetPathsOf((0..(Len(doc) - 1)) \ failed)
              /\ combined_made => combined_file = ret.pages

-----------------------------------------------------------------------------
(* The input path and the document handle (Spec)                           *)

\* no unit has been matched, rasterized or written
NoUnitProcessed ==
    /\ log = <<>> /\ matches = <<>> /\ page_dims = <<>>
    /\ files = {} /\ raster = <<>> /\ ~combined_made

\* the first step of a pipeline whose input path is missing raises
MissingPathRaises == (~exists /\ pc = "start") => pc' = "raised"

\* C17: in every pipeline (pdf, docx, excel, image) a missing input path makes the
\* call raise to the caller before any unit is matched, rasterized or written: no
\* unit-processing step is reached in such a run.
C17_NotFoundBeforeUnits ==
    /\ [](~exists => (pc \in {"idle", "start", "raised"} /\ NoUnitProcessed))
    /\ [][MissingPathRaises]_vars

\* C17's case: a pipeline was called with a missing path and the caller has the
\* exception
C17_Witness ==
    /\ ~exists /\ kind = "docx" /\ pc = "raised" /\ app_pc = "error" /\ log = <<>>

\* the pipeline function has returned or raised
PipelineLeft == pc \in {"returned", "normalised", "raised"} \/ app_pc \in {"done", "error"}

-----------------------------------------------------------------------------
(* Properties of the grid layout (SpecGrid)                                *)

\* the sum of the first n entries of px
SumBefore(px, n) == SumSeq(SubSeq(px, 1, n))

\* the box the layout rule gives cell (r, c)
RuleBox(r, c) ==
    <<SumBefore(q_col_px, c - 1), SumBefore(q_row_px, r - 1),
      SumBefore(q_col_px, c - 1) + q_col_px[c],
      SumBefore(q_row_px, r - 1) + q_row_px[r]>>

\* C19: in render_sheet_to_image, cell_boxes[(r, c)] = (sum of col_px of the
\* columns before c, sum of row_px of the rows before r, that x + col_px[c], that
\* y + row_px[r]) for every cell of the sheet; horizontally and vertically
\* adjacent cells share an edge, the boxes tile the image (whose size is
\* (sum col_px, sum row_px)), and draw_matches_on_image uses exactly this box
\* for every matched cell.
C19_GridMapping ==
    LET rows == Len(q_row_px)
        cols == Len(q_col_px)
    IN  /\ q_pc \in {"cells", "drawn"} =>
              /\ q_img = <<SumSeq(q_col_px), SumSeq(q_row_px)>>
              /\ \A cell \in DOMAIN q_boxes : q_boxes[cell] = RuleBox(cell[1], cell[2])
        /\ (q_pc = "drawn" \/ (q_pc = "cells" /\ q_r > rows)) =>
              /\ DOMAIN q_boxes = GridCellsOf(rows, cols)
              /\ \A r \in 1..rows : \A c \in 1..cols :
                    /\ c < cols => q_boxes[<<r, c>>][3] = q_boxes[<<r, c + 1>>][1]
                    /\ r < rows => q_boxes[<<r, c>>][4] = q_boxes[<<r + 1, c>>][2]
                    /\ c = 1 => q_boxes[<<r, c>>][1] = 0
                    /\ r = 1 => q_boxes[<<r, c>>][2] = 0
                    /\ c = cols => q_boxes[<<r, c>>][3] = q_img[1]
                    /\ r = rows => q_boxes[<<r, c>>][4] = q_img[2]
        /\ q_pc = "drawn" =>
              /\ DOMAIN q_drawn = q_match
              /\ \A cell \in q_match : q_drawn[cell] = RuleBox(cell[1], cell[2])

\* C19's case: a sheet of 2 rows and 2 columns of unequal sizes is laid out and the
\* box of its matched cell (2, 2) is drawn
C19_Witness ==
    /\ q_pc = "drawn" /\ q_col_px = <<MIN_COL_PX, DefaultColPx>>
    /\ q_row_px = <<TallRowPx, DEFAULT_CELL_HEIGHT>>
    /\ q_match = {<<2, 2>>}
    /\ q_drawn[<<2, 2>>] = <<60, 52, 146, 82>>
    /\ q_img = <<146, 82>>

-----------------------------------------------------------------------------
(* Properties of detect_type (SpecType)                                    *)

\* the suffix is ext, in whatever case its letters are written
Written(sfx, ext) == sfx \in CaseVariants(ext)

-----------------------------------------------------------------------------
(* Properties of gather_files (SpecGather)                                 *)

Listed(sq) == {sq[i] : i \in 1..Len(sq)}

EachOnce(sq) == Len(sq) = Cardinality(Listed(sq))

\* a file of the tree whose extension the runner supports
SupportedFile(p) ==
    /\ ~f_isdir[p]
    /\ \E e \in DOMAIN SUPPORTED_EXTENSIONS : Written(Suffix(f_name[p]), e)

RECURSIVE Under(_, _)

\* entry p lies in directory d or in a directory below it
Under(p, d) == f_parent[p] = d \/ (f_parent[p] # 0 /\ Under(f_parent[p], d))

GatherPathIsFile == f_path \in Entries /\ ~f_isdir[f_path]

\* C21: for a directory, gather_files without recursion returns exactly the
\* supported files lying directly in it (none of a sub-directory, none unsupported);
\* with recursion it returns exactly the supported files of the whole subtree, each
\* once; for a path that is a file it returns the one-element list of that path.
C21_GatherFiles ==
    /\ f_pc \in {"flat", "deep"} =>
        IF GatherPathIsFile
        THEN f_flat = <<f_path>>
        ELSE /\ Listed(f_flat) = {p \in Entries : SupportedFile(p) /\ f_parent[p] = f_path}
             /\ EachOnce(f_flat)
    /\ f_pc = "deep" =>
        IF GatherPathIsFile
        THEN f_deep = <<f_path>>
        ELSE /\ Listed(f_deep) = {p \in Entries : SupportedFile(p) /\ Under(p, f_path)}
             /\ EachOnce(f_deep)

\* the root holds an unsupported file and a sub-directory with a supported file in
\* it; both calls have returned, and only the recursive one lists that file
C21_Witness ==
    /\ f_pc = "deep" /\ f_path = 0
    /\ \E p \in Entries : f_parent[p] = 0 /\ ~f_isdir[p] /\ ~SupportedFile(p)
    /\ \E p \in Entries : f_parent[p] # 0 /\ f_deep = <<p>>
    /\ f_flat = <<>>

-----------------------------------------------------------------------------
(* Properties of process_single_file (Spec)                                *)

\* the extension of the input file is one the runner supports
SupportedName == \E e \in DOMAIN SUPPORTED_EXTENSIONS : Written(Suffix(fname), e)

\* the runner that belongs to the extension of the input file
RunnerOfName ==
    CASE Written(Suffix(fname), ExtPdf) -> "run_pdf"
      [] Written(Suffix(fname), ExtDocx) -> "run_docx"
      [] Written(Suffix(fname), ExtXlsx) \/ Written(Suffix(fname), ExtXls) -> "run_excel"
      [] OTHER -> "run_image"

\* process_single_file raises for an unsupported extension
UnsupportedRaises == (~SupportedName /\ app_pc = "process") => app_pc' = "error"

\* C22: for a file with a supported extension process_single_file creates the
\* sub-directory outdir/<stem>, calls exactly the runner of detect_type(file) and
\* returns that runner's result, which has a "pages" key, with the sub-directory;
\* for an unsupported extension it raises RuntimeError before any directory is
\* created or any runner is called.
C22_ProcessSingleFile ==
    /\ [](app_pc \in {"runner", "done"} =>
            /\ SupportedName
            /\ runner = RunnerOfName
            /\ out_subdir = <<"outdir", <<"f">>>>
            /\ dirs = {out_subdir})
    /\ [](app_pc = "done" => "pages" \in DOMAIN result)
    /\ [](~SupportedName =>
            /\ app_pc \in {"main", "prompt", "process", "error"}
            /\ runner = "None" /\ pc = "idle" /\ log = <<>>
            /\ dirs = {} /\ out_subdir = <<>>)
    /\ [][UnsupportedRaises]_vars

\* C22's case: the call on a .DOCX file has returned the docx runner's result and
\* the sub-directory it created
C22_Witness ==
    /\ app_pc = "done" /\ runner = "run_docx" /\ out_subdir \in dirs
    /\ Len(result.pages) = 1

-----------------------------------------------------------------------------
(* The order of the steps of the page-oriented pipeline (Spec)             *)

\* the steps of a unit's lifecycle, in the order of the claim
LifecycleRank(op) ==
    CASE op = "render" -> 1
      [] op = "fallback" -> 2
      [] op = "record" -> 3
      [] op = "native" -> 4
      [] OTHER -> 0

Aggregations == {"aggregate", "aggregate_failed"}

\* the log entry before entry i is the step `op` of the same unit
PrecededBy(i, op) == i > 1 /\ log[i - 1].op = op /\ log[i - 1].unit = log[i].unit

\* C23: the units of the page-oriented pipeline are processed one at a time in
\* ascending index order; a rendered unit is rasterized, then its fallback raster
\* is drawn and saved, then its canonical path is recorded, then the native draw is
\* attempted; the native attempt of a unit ends before the next unit is rasterized
\* and the aggregation starts only after the last unit.
C23_UnitLifecycleOrder ==
    kind \in PdfKinds =>
        /\ \A i \in 1..Len(log) :
            /\ log[i].op = "render" =>
                  /\ i > 1
                  /\ \/ log[i - 1].op \in {"locate", "docx2pdf", "libreoffice"}
                     \/ log[i - 1].op = "native" /\ log[i - 1].unit < log[i].unit
            /\ log[i].op = "fallback" => PrecededBy(i, "render")
            /\ log[i].op = "record" =>
                  /\ PrecededBy(i, "fallback")
                  /\ FallbackPath(log[i].unit) \in files
            /\ log[i].op = "native" => PrecededBy(i, "record")
            /\ log[i].op \in Aggregations =>
                  /\ i = Len(log)
                  /\ log[i - 1].op = "native"
                  /\ pnum = Len(doc)
        /\ \A i, j \in 1..Len(log) :
              (i < j /\ LifecycleRank(log[i].op) > 0 /\ LifecycleRank(log[j].op) > 0) =>
                  \/ log[i].unit < log[j].unit
                  \/ /\ log[i].unit = log[j].unit
                     /\ LifecycleRank(log[i].op) < LifecycleRank(log[j].op)
        /\ pc \in {"aggregate", "return", "returned"} =>
              /\ pnum = Len(doc)
              /\ \A u \in DOMAIN chosen_images :
                    \E i \in 1..Len(log) : log[i].op = "native" /\ log[i].unit = u

\* C23's case: two units went through their whole lifecycle and the aggregation ran
C23_Witness ==
    /\ kind = "pdf" /\ pc = "returned" /\ Len(ordered) = 2
    /\ \E i \in 1..Len(log) : log[i].op = "aggregate"
    /\ \E i \in 1..Len(log) : log[i].op = "native" /\ log[i].unit = 0 /\ log[i].n = 0

-----------------------------------------------------------------------------
(* The conversion of a docx and its temporary directory (Spec)             *)

\* the log holds the entry of a converter attempt with the given success flag
Attempted(op, ok) == \E i \in 1..Len(log) : log[i].op = op /\ log[i].n = ok

\* the log holds an entry of a step of the pdf pipeline
PdfPipelineCalled ==
    \E i \in 1..Len(log) : log[i].op \in {"locate", "render", "fallback", "record",
                                           "native", "aggregate", "aggregate_failed"}

ConversionDone == kind = "docx" /\ (Attempted("docx2pdf", 0) \/ Attempted("docx2pdf", 1))

\* convert_docx_to_pdf raised
NoConverter == Attempted("docx2pdf", 0) /\ Attempted("libreoffice", 0)

\* process_word_file has returned or raised
WordFileLeft == pc = "normalised" \/ app_pc \in {"done", "error"}

-----------------------------------------------------------------------------
(* Properties of app.main's loop (SpecMain)                                *)

MainLeft == n_pc \in {"exited", "returned", "raised"}

\* the summary holds one entry per file, in list order, each with a result or an
\* error and never both
OneEntryPerFile ==
    /\ Len(n_overall) = Len(n_files)
    /\ \A i \in 1..Len(n_overall) :
        /\ n_overall[i].file = n_files[i]
        /\ ("result" \in DOMAIN n_overall[i]) # ("error" \in DOMAIN n_overall[i])

\* C25: whatever files were gathered and whichever of them fail, main processes
\* the files in list order, a failure of one file does not keep the later files
\* from being processed, the summary then holds exactly one entry per file with
\* either a result or an error, and main exits with status 2 only when no file was
\* gathered and returns 0 otherwise, even if every file failed.
C25_PerFileContainment ==
    /\ n_pc \in {"summary", "returned", "raised"} => OneEntryPerFile
    /\ n_status = 2 => n_files = <<>>
    /\ (MainLeft /\ n_files # <<>>) => (n_pc = "returned" /\ n_status = 0)

\* what holds instead: the loop is contained, and main returns 0 unless a file
\* failed with an exception whose message is empty
ContainedUntilSummary ==
    /\ n_pc \in {"summary", "returned", "raised"} => OneEntryPerFile
    /\ n_status = 2 => n_files = <<>>
    /\ (MainLeft /\ n_files # <<>>) =>
          IF \E i \in 1..Len(n_overall) : Get(n_overall[i], "error") = ""
          THEN n_pc = "raised" /\ n_status = 1
          ELSE n_pc = "returned" /\ n_status = 0

-----------------------------------------------------------------------------
(* prefer_fallback and the page-oriented pipeline (SpecPrefer)             *)

\* every unit whose canonical path a run recorded has its native attempt in the log
NativeAttempted(run) ==
    \A i \in 1..Len(run.log) :
        run.log[i].op = "record" =>
            \E j \in 1..Len(run.log) :
                j > i /\ run.log[j].op = "native" /\ run.log[j].unit = run.log[i].unit

\* C26: two calls of annotate_pdf_and_build_combined that differ only in
\* prefer_fallback perform the same sequence of operations, the native draw being
\* attempted in both, and return the same raster path list and the same combined
\* artifact path.
C26_PreferFallbackIgnored ==
    h_pc = "both" =>
        /\ h_run1.log = h_run2.log
        /\ h_run1.raised = h_run2.raised
        /\ h_run1.pages = h_run2.pages
        /\ h_run1.combined = h_run2.combined
        /\ NativeAttempted(h_run1) /\ NativeAttempted(h_run2)

\* C26's case: both calls returned two raster paths, a native draw having failed
C26_Witness ==
    /\ h_pc = "both" /\ ~h_run1.raised /\ Len(h_run2.pages) = 2
    /\ \E i \in 1..Len(h_run2.log) : h_run2.log[i].op = "native" /\ h_run2.log[i].n = 0
    /\ h_run2.combined = CombinedPath

=============================================================================
